---- MODULE Spec2Model ----
(***************************************************************************)
(* Signal engine of DSEtrade/dseapp/signals: ProfessionalSMCEngine         *)
(* (smc_engine.py) and RiskManager (risk_manager.py).                      *)
(*                                                                         *)
(* Number representation.  Python floats are modelled as exact fixed-point *)
(* integers:                                                               *)
(*   - a price, an ATR, a stop distance or an account balance is a whole   *)
(*     number of "units"; one cent is Cent units, so that 1.5 x ATR and    *)
(*     1% of a cent-valued price stay whole numbers;                       *)
(*   - a value that the code rounds to 2 decimals (round(x, 2)) is a whole *)
(*     number of hundredths (for a price: cents);                          *)
(*   - a value rounded to 4 decimals (round(x, 4)) is a whole number of    *)
(*     ten-thousandths;                                                    *)
(*   - commission and slippage rates are whole ten-thousandths;            *)
(*   - the quotients in between are exact rationals <<num, den>>.          *)
(* round() is round-half-to-even on the exact value.                       *)
(*                                                                         *)
(* A candle series is represented by what the engine reads from it: its    *)
(* length, its last close, and the value each detector of the signals      *)
(* package returns on it.  The detectors' own minimum-length guards are    *)
(* modelled (tf_* operators); the value they return on a long enough       *)
(* series is an input of the model.                                        *)
(*                                                                         *)
(* The detectors themselves (utils.py, structure.py, liquidity.py,         *)
(* order_block.py, breaker.py, fvg.py) are modelled further down on real   *)
(* candle sequences: a candle is a record [time, open, high, low, close,   *)
(* volume] of whole numbers, a series a sequence of candles, oldest first. *)
(* Python index i is TLA+ index i + 1.                                     *)
(***************************************************************************)
EXTENDS Integers, Sequences, FiniteSets, TLC

VARIABLES
    htf, mtf, ltf,              \* self.htf, self.mtf, self.ltf
    account_balance,            \* self.account_balance (units)
    risk_percent,               \* self.risk_percent (percent)
    commission,                 \* self.commission (ten-thousandths)
    atr_ltf, atr_mtf, atr_htf,  \* self.atr_* (units)
    current_price,              \* self.current_price (units)
    risk_manager,               \* self.risk_manager / a RiskManager instance
    pc,                         \* which call has completed
    results,                    \* value returned by analyze_all
    best,                       \* value returned by analyze_best
    rm_args,                    \* arguments of calculate_position_size
    rm_result,                  \* value returned by calculate_position_size
    series,                     \* the candle series handed to a detector
    called,                     \* the detector called, with its arguments
    returned,                   \* the value the detector returned
    now,                        \* datetime.now(), in ticks
    runs,                       \* to_dict() of the results of each analysis
    zone,                       \* the zone dictionary handed to a zone check
    trade                       \* a TradeStateMachine instance

vars == <<htf, mtf, ltf, account_balance, risk_percent, commission,
          atr_ltf, atr_mtf, atr_htf, current_price, risk_manager,
          pc, results, best, rm_args, rm_result,
          series, called, returned, now, runs, zone, trade>>

\* No detector has been called on its own, no analysis has been recorded.
detectors_idle ==
    /\ series = <<>>
    /\ called = <<>>
    /\ returned = <<>>

clock_idle ==
    /\ now = 0
    /\ runs = <<>>

\* No zone is held, no trade has been opened.
zones_idle == zone = <<>>

trade_idle == trade = <<>>

-----------------------------------------------------------------------------
(* Fixed-point arithmetic                                                  *)

\* Units per cent: 1 unit = 0.00005 of the currency.
Cent == 2 * 100

\* Units per currency unit.
Currency == 100 * Cent

Min(a, b) == IF a <= b THEN a ELSE b

Abs(a) == IF a < 0 THEN -a ELSE a

RECURSIVE GCD(_, _)
GCD(a, b) == IF b = 0 THEN a ELSE GCD(b, a % b)

\* The rational n/d (d > 0, n >= 0) in lowest terms.
Rat(n, d) == LET g == GCD(n, d) IN <<n \div g, d \div g>>

\* Product of two rationals, cross-reduced before multiplying.
RatMul(p, q) ==
    LET g1 == GCD(p[1], q[2])
        g2 == GCD(q[1], p[2])
    IN  Rat((p[1] \div g1) * (q[1] \div g2), (p[2] \div g2) * (q[2] \div g1))

\* p <= q for two non-negative rationals; continued-fraction comparison,
\* which multiplies nothing.
RECURSIVE RatLeq(_, _)
RatLeq(p, q) ==
    LET ip == p[1] \div p[2]
        iq == q[1] \div q[2]
        rp == p[1] % p[2]
        rq == q[1] % q[2]
    IN  IF ip # iq THEN ip < iq
        ELSE IF rp = 0 THEN TRUE
        ELSE IF rq = 0 THEN FALSE
        ELSE RatLeq(<<q[2], rq>>, <<p[2], rp>>)

RatMin(p, q) == IF RatLeq(p, q) THEN p ELSE q

\* <<floor(n * 10^k / d), remainder>> by long division, d > 0.
RECURSIVE DivDigits(_, _, _)
DivDigits(n, d, k) ==
    IF k = 0 THEN <<n \div d, n % d>>
    ELSE LET p == DivDigits(n, d, k - 1)
         IN  <<p[1] * 10 + (p[2] * 10) \div d, (p[2] * 10) % d>>

\* round(n / d, k): the nearest multiple of 10^-k, ties to the even one,
\* as a whole number of 10^-k.
Round(n, d, k) ==
    LET p == DivDigits(n, d, k)
        q == p[1]
        r == p[2]
    IN  IF 2 * r > d THEN q + 1
        ELSE IF 2 * r < d THEN q
        ELSE IF q % 2 = 0 THEN q ELSE q + 1

-----------------------------------------------------------------------------
(* Candle series as the engine sees them                                   *)

Structures == {"bullish", "bearish", "ranging", "accumulation", "distribution"}

\* The candle series with no candle.
EmptySeries ==
    [len |-> 0, close |-> 0, atr |-> 0, structure |-> "ranging",
     sweep |-> FALSE, fvg |-> FALSE, ob |-> FALSE, breaker |-> FALSE,
     mss |-> FALSE]

\* What a series of s.len candles can show.  A three-candle gap needs 3
\* candles; a sweep of the 9-candle envelope and an order block need 10; two
\* swing highs (or lows) of a 3/3 window lie at least 4 apart, the first at
\* index 3 and the last at index len - 4, so a trend, a structure shift and a
\* breaker need 11; 14 true ranges need 15.  An ATR of 0 means the last 14
\* candles are flat at the previous close: then the last candle sweeps
\* nothing, no candle of the last 10 goes through a swing level, and both
\* swings lie before the flat tail, which needs 22 candles.
WellFormed(s) ==
    /\ (s.len = 0) = (s.close = 0)
    /\ s.len < 3 => ~s.fvg
    /\ s.len < 10 => ~s.sweep /\ ~s.ob
    /\ s.len < 11 => s.structure = "ranging" /\ ~s.mss /\ ~s.breaker
    /\ s.len < 15 => s.atr = 0
    /\ (s.len >= 15 /\ s.atr = 0) => ~s.sweep /\ ~s.breaker
    /\ (s.len >= 15 /\ s.len < 22 /\ s.atr = 0) =>
           s.structure = "ranging" /\ ~s.mss

\* calculate_atr(candles, period): 0 below period + 1 candles.
tf_atr(candles, period) ==
    IF candles.len < period + 1 THEN 0 ELSE candles.atr

\* detect_structure(candles): 'ranging' below 10 candles.
tf_structure(candles) ==
    IF candles.len < 10 THEN "ranging" ELSE candles.structure

\* detect_mss(candles): False below 10 candles.
tf_mss(candles) ==
    IF candles.len < 10 THEN FALSE ELSE candles.mss

\* volume_confirmed_sweep(candles): False on no or fewer than 20 candles.
tf_sweep(candles) ==
    IF candles.len = 0 \/ candles.len < 20 THEN FALSE ELSE candles.sweep

\* detect_fvg(candles) is not None: None below 3 candles.
tf_fvg(candles) ==
    IF candles.len < 3 THEN FALSE ELSE candles.fvg

\* detect_order_block(candles) is not None: None below 10 candles.
tf_ob(candles) ==
    IF candles.len < 10 THEN FALSE ELSE candles.ob

\* detect_breaker_block(candles) is not None: None below 20 candles.
tf_breaker(candles) ==
    IF candles.len < 20 THEN FALSE ELSE candles.breaker

-----------------------------------------------------------------------------
(* RiskManager (risk_manager.py)                                           *)

\* RiskManager.__init__; risk_percent / 100 is kept as a rational.
RiskManager(balance, percent, comm, slip) ==
    [account_balance   |-> balance,
     risk_percent      |-> Rat(percent, 100),
     commission        |-> comm,
     slippage          |-> slip,
     max_risk_amount   |-> RatMul(<<balance, 1>>, Rat(percent, 100)),
     max_position_size |-> Rat(balance * 2, 10)]

\* Mutant of calculate_position_size: the 20% position limit is not applied.
calculate_position_size_no_limit(self, entry_price, stop_loss) ==
    LET risk_amount == RatMul(<<self.account_balance, 1>>, self.risk_percent)
        sl_distance == IF entry_price > stop_loss
                       THEN entry_price - stop_loss
                       ELSE stop_loss - entry_price
    IN  IF sl_distance <= 0 THEN 0
        ELSE LET position_size == RatMul(risk_amount, <<1, sl_distance>>)
                 adjusted_size ==
                     RatMul(position_size,
                            Rat(10000 - self.commission - self.slippage, 10000))
             IN  Round(adjusted_size[1], adjusted_size[2], 4)

\* RiskManager.calculate_position_size(entry_price, stop_loss), in
\* ten-thousandths of a unit of the instrument.
calculate_position_size(self, entry_price, stop_loss) ==
    LET risk_amount == RatMul(<<self.account_balance, 1>>, self.risk_percent)
        sl_distance == IF entry_price > stop_loss
                       THEN entry_price - stop_loss
                       ELSE stop_loss - entry_price
    IN  IF sl_distance <= 0 THEN 0
        ELSE LET position_size == RatMul(risk_amount, <<1, sl_distance>>)
                 adjusted_size ==
                     RatMul(position_size,
                            Rat(10000 - self.commission - self.slippage, 10000))
                 max_units == RatMul(self.max_position_size, <<1, entry_price>>)
                 capped == RatMin(adjusted_size, max_units)
             IN  Round(capped[1], capped[2], 4)

-----------------------------------------------------------------------------
(* ProfessionalSMCEngine (smc_engine.py)                                   *)

\* Python's None, as the direction of _direction_from_structure.
None == "None"

\* SignalResult(mode=mode): the dataclass defaults.  entry_price, stop_loss
\* and take_profit_* are in cents, risk_reward_ratio in hundredths,
\* position_size in ten-thousandths.
SignalResult(mode) ==
    [mode                 |-> mode,
     signal               |-> "NO_TRADE",
     direction            |-> "NO_TRADE",
     confidence           |-> 0,
     entry_price          |-> 0,
     stop_loss            |-> 0,
     take_profit_1        |-> 0,
     take_profit_2        |-> 0,
     take_profit_3        |-> 0,
     structure            |-> "unknown",
     liquidity_swept      |-> FALSE,
     order_block_detected |-> FALSE,
     fvg_detected         |-> FALSE,
     risk_reward_ratio    |-> 0,
     position_size        |-> 0]

\* The engine object after __init__(candles_htf, candles_mtf, candles_ltf,
\* account_balance, risk_percent, commission).
Engine(candles_htf, candles_mtf, candles_ltf, balance, percent, comm) ==
    [htf             |-> candles_htf,
     mtf             |-> candles_mtf,
     ltf             |-> candles_ltf,
     account_balance |-> balance,
     risk_percent    |-> percent,
     commission      |-> comm,
     atr_ltf         |-> IF candles_ltf.len # 0 THEN tf_atr(candles_ltf, 14) ELSE 0,
     atr_mtf         |-> IF candles_mtf.len # 0 THEN tf_atr(candles_mtf, 14) ELSE 0,
     atr_htf         |-> IF candles_htf.len # 0 THEN tf_atr(candles_htf, 14) ELSE 0,
     risk_manager    |-> RiskManager(balance, percent, comm, 5),
     current_price   |-> IF candles_ltf.len # 0 THEN candles_ltf.close ELSE 0]

\* _direction_from_structure
direction_from_structure(structure) ==
    IF structure = "bullish" THEN "LONG"
    ELSE IF structure = "bearish" THEN "SHORT"
    ELSE None

\* The stop distance of _build_trade: 1.5 x the first non-zero of the three
\* ATRs, else 1.5 x 1% of the price.
stop_distance(self, price) ==
    LET atr_to_use == IF self.atr_ltf # 0 THEN self.atr_ltf
                      ELSE IF self.atr_mtf # 0 THEN self.atr_mtf
                      ELSE IF self.atr_htf # 0 THEN self.atr_htf
                      ELSE price \div 100
    IN  (atr_to_use * 15) \div 10

\* signal_label with a weak signal reported as no trade.
signal_label_strong_only(direction, confidence) ==
    IF confidence >= 60 THEN direction ELSE "NO_TRADE"

\* The signal label of _build_trade.
signal_label(direction, confidence) ==
    IF confidence >= 60 THEN direction ELSE "WEAK_" \o direction

\* Mutant of no_trade: the direction is not tested.
no_trade_ltf_only(self, direction) ==
    self.ltf.len = 0

\* The early return of _build_trade: "if not direction or not self.ltf".
no_trade(self, direction) ==
    direction = None \/ self.ltf.len = 0

\* Mutant of clamp_confidence: the confidence is reported as computed.
clamp_confidence_none(confidence) ==
    confidence

\* The reported confidence of _build_trade: min(confidence, 100).
clamp_confidence(confidence) ==
    Min(confidence, 100)

\* _build_trade
build_trade(self, mode, direction, confidence, structure, sweep, ob, fvg) ==
    IF no_trade(self, direction)
    THEN [SignalResult(mode) EXCEPT
              !.structure = structure,
              !.liquidity_swept = sweep,
              !.order_block_detected = ob,
              !.fvg_detected = fvg]
    ELSE LET price == self.ltf.close
             sl_distance == stop_distance(self, price)
             long == direction = "LONG"
             sl  == IF long THEN price - sl_distance ELSE price + sl_distance
             tp1 == IF long THEN price + sl_distance * 2 ELSE price - sl_distance * 2
             tp2 == IF long THEN price + sl_distance * 3 ELSE price - sl_distance * 3
             tp3 == IF long THEN price + sl_distance * 5 ELSE price - sl_distance * 5
             rr  == IF long
                    THEN (IF sl < price THEN Round(tp1 - price, price - sl, 2) ELSE 0)
                    ELSE (IF sl > price THEN Round(price - tp1, sl - price, 2) ELSE 0)
             risk_amount == (self.account_balance * self.risk_percent) \div 100
             position_size == IF sl_distance > 0
                              THEN Round(risk_amount, sl_distance, 4)
                              ELSE 0
         IN  [mode                 |-> mode,
              signal               |-> signal_label(direction, confidence),
              direction            |-> direction,
              confidence           |-> clamp_confidence(confidence),
              entry_price          |-> Round(price, Cent, 0),
              stop_loss            |-> Round(sl, Cent, 0),
              take_profit_1        |-> Round(tp1, Cent, 0),
              take_profit_2        |-> Round(tp2, Cent, 0),
              take_profit_3        |-> Round(tp3, Cent, 0),
              risk_reward_ratio    |-> rr,
              position_size        |-> position_size,
              structure            |-> structure,
              liquidity_swept      |-> sweep,
              order_block_detected |-> ob,
              fvg_detected         |-> fvg]

\* The confidence of _analyze_scalp before _build_trade.
scalp_confidence(ltf_structure, ltf_sweep, ltf_fvg, ltf_ob) ==
    40 + (IF ltf_structure \in {"bullish", "bearish"} THEN 10 ELSE 0)
       + (IF ltf_sweep THEN 20 ELSE 0)
       + (IF ltf_fvg THEN 15 ELSE 0)
       + (IF ltf_ob THEN 15 ELSE 0)

\* _analyze_scalp
analyze_scalp(self) ==
    IF self.ltf.len = 0 \/ self.ltf.len < 20
    THEN SignalResult("SCALP")
    ELSE LET ltf_structure == tf_structure(self.ltf)
             ltf_sweep == tf_sweep(self.ltf)
             ltf_fvg == tf_fvg(self.ltf)
             ltf_ob == tf_ob(self.ltf)
         IN  build_trade(self, "SCALP",
                         direction_from_structure(ltf_structure),
                         scalp_confidence(ltf_structure, ltf_sweep, ltf_fvg, ltf_ob),
                         "LTF:" \o ltf_structure,
                         ltf_sweep, ltf_ob, ltf_fvg)

\* The confidence of _analyze_institutional before _build_trade.
institutional_confidence(htf_structure, htf_ob, htf_breaker, htf_sweep, htf_mss) ==
    50 + (IF htf_structure \in {"bullish", "bearish"} THEN 15 ELSE 0)
       + (IF htf_ob THEN 15 ELSE 0)
       + (IF htf_breaker THEN 15 ELSE 0)
       + (IF htf_sweep THEN 15 ELSE 0)
       + (IF htf_mss THEN 10 ELSE 0)

\* _analyze_institutional
analyze_institutional(self) ==
    IF self.htf.len = 0 \/ self.htf.len < 30
    THEN SignalResult("INSTITUTIONAL")
    ELSE LET htf_structure == tf_structure(self.htf)
             htf_ob == tf_ob(self.htf)
             htf_breaker == tf_breaker(self.htf)
             htf_sweep == tf_sweep(self.htf)
             htf_mss == tf_mss(self.htf)
         IN  build_trade(self, "INSTITUTIONAL",
                         direction_from_structure(htf_structure),
                         institutional_confidence(htf_structure, htf_ob,
                                                  htf_breaker, htf_sweep, htf_mss),
                         "HTF:" \o htf_structure,
                         htf_sweep, htf_ob, FALSE)

\* Mutant of hybrid_alignment: the higher-timeframe-only case is tried first.
hybrid_alignment_htf_first(h, m, l) ==
    IF h \in {"bullish", "bearish"}
    THEN <<direction_from_structure(h), 60>>
    ELSE IF h = m /\ m = l /\ h \in {"bullish", "bearish"}
    THEN <<direction_from_structure(h), 85>>
    ELSE IF h = m /\ h \in {"bullish", "bearish"} /\ l = "ranging"
    THEN <<direction_from_structure(h), 70>>
    ELSE <<None, 40>>

\* The alignment cases of _analyze_hybrid: <<direction, confidence>>.
hybrid_alignment(h, m, l) ==
    IF h = m /\ m = l /\ h \in {"bullish", "bearish"}
    THEN <<direction_from_structure(h), 85>>
    ELSE IF h = m /\ h \in {"bullish", "bearish"} /\ l = "ranging"
    THEN <<direction_from_structure(h), 70>>
    ELSE IF h \in {"bullish", "bearish"}
    THEN <<direction_from_structure(h), 60>>
    ELSE <<None, 40>>

\* The confirmations of _analyze_hybrid, applied when a direction exists.
hybrid_confirm(direction, confidence, sweep, ob) ==
    IF direction = None THEN confidence
    ELSE LET c1 == IF sweep THEN Min(95, confidence + 10) ELSE confidence
         IN  IF ob THEN Min(95, c1 + 10) ELSE c1

\* _analyze_hybrid
analyze_hybrid(self) ==
    IF self.htf.len = 0 \/ self.mtf.len = 0 \/ self.ltf.len = 0
    THEN SignalResult("HYBRID")
    ELSE LET h == tf_structure(self.htf)
             m == tf_structure(self.mtf)
             l == tf_structure(self.ltf)
             a == hybrid_alignment(h, m, l)
             confidence ==
                 hybrid_confirm(a[1], a[2],
                                tf_sweep(self.htf) \/ tf_sweep(self.mtf),
                                tf_ob(self.htf) \/ tf_ob(self.mtf))
         IN  build_trade(self, "HYBRID", a[1], confidence,
                         "HTF:" \o h \o " | MTF:" \o m \o " | LTF:" \o l,
                         FALSE, FALSE, FALSE)

\* The value of analyze_all.
all_results(self) ==
    [scalp         |-> analyze_scalp(self),
     institutional |-> analyze_institutional(self),
     hybrid        |-> analyze_hybrid(self)]

\* max(results.values(), key=confidence): the first of scalp, institutional,
\* hybrid that no other exceeds.
max_confidence(r) ==
    IF r.scalp.confidence >= r.institutional.confidence
       /\ r.scalp.confidence >= r.hybrid.confidence
    THEN r.scalp
    ELSE IF r.institutional.confidence >= r.hybrid.confidence
    THEN r.institutional
    ELSE r.hybrid

\* analyze_best without the fallback to hybrid below 50.
best_result_max(self) ==
    max_confidence(all_results(self))

\* The value of analyze_best.
best_result(self) ==
    LET r == all_results(self)
        b == max_confidence(r)
    IN  IF b.confidence < 50 THEN r.hybrid ELSE b

-----------------------------------------------------------------------------
(* Inputs                                                                  *)

\* Bounds of the input sets.
MaxClose == 2
MaxAtr == 2
MaxBalance == 1
MaxRiskPercent == 2

\* Last closes: 0.54, 1.08, ...
Closes == {54 * Cent * k : k \in 1..MaxClose}

\* ATRs: 0, 0.002, 0.004, ...
Atrs == {40 * k : k \in 0..MaxAtr}

\* Account balances: 10000, 20000, ...
Balances == {10000 * Currency * k : k \in 1..MaxBalance}

RiskPercents == 1..MaxRiskPercent

BaseClose == 108 * Cent

BaseAtr == 10 * Cent

\* The series of the given lengths whose last close, ATR and detector values
\* lie in the given sets.
SeriesOf(lens, closes, atrs, structs, sweeps, fvgs, obs, breakers, msss) ==
    {s \in [len : lens, close : closes \cup {0}, atr : atrs \cup {0},
            structure : structs \cup {"ranging"},
            sweep : sweeps \cup {FALSE}, fvg : fvgs \cup {FALSE},
            ob : obs \cup {FALSE}, breaker : breakers \cup {FALSE},
            mss : msss \cup {FALSE}] :
        /\ WellFormed(s)
        /\ s.len >= 15 => s.atr \in atrs}

\* The state after ProfessionalSMCEngine(h, m, l, balance, percent, comm).
Constructed(h, m, l, balance, percent, comm) ==
    LET self == Engine(h, m, l, balance, percent, comm)
    IN  /\ htf = self.htf
        /\ mtf = self.mtf
        /\ ltf = self.ltf
        /\ account_balance = self.account_balance
        /\ risk_percent = self.risk_percent
        /\ commission = self.commission
        /\ atr_ltf = self.atr_ltf
        /\ atr_mtf = self.atr_mtf
        /\ atr_htf = self.atr_htf
        /\ current_price = self.current_price
        /\ risk_manager = self.risk_manager
        /\ pc = "constructed"
        /\ results = all_results(Engine(EmptySeries, EmptySeries, EmptySeries,
                                        balance, percent, comm))
        /\ best = SignalResult("HYBRID")
        /\ rm_args = <<>>
        /\ rm_result = 0
        /\ detectors_idle
        /\ clock_idle
        /\ zones_idle /\ trade_idle

\* Three series varied in what the hybrid analysis reads.
HybridInputs ==
    \E h \in SeriesOf({0, 9, 30}, {BaseClose}, {BaseAtr}, Structures,
                      BOOLEAN, {}, BOOLEAN, {}, {}),
       m \in SeriesOf({0, 9, 30}, {BaseClose}, {BaseAtr}, Structures,
                      BOOLEAN, {}, BOOLEAN, {}, {}),
       l \in SeriesOf({0, 3, 9, 14, 20}, {BaseClose}, {BaseAtr}, Structures,
                      {}, {}, {}, {}, {}) :
        Constructed(h, m, l, 10000 * Currency, 1, 10)

\* The lower timeframe varied in what the scalp analysis reads.
ScalpInputs ==
    \E h \in SeriesOf({0, 30}, {BaseClose}, {BaseAtr}, {"bullish"},
                      {}, {}, {}, {}, {}),
       l \in SeriesOf({0, 3, 9, 14, 19, 20}, {BaseClose}, {BaseAtr}, Structures,
                      BOOLEAN, BOOLEAN, BOOLEAN, {}, {}) :
        Constructed(h, h, l, 10000 * Currency, 1, 10)

\* The higher timeframe varied in what the institutional analysis reads.
InstitutionalInputs ==
    \E h \in SeriesOf({0, 9, 29, 30}, {BaseClose}, {BaseAtr}, Structures,
                      BOOLEAN, {}, BOOLEAN, BOOLEAN, BOOLEAN),
       l \in SeriesOf({0, 9, 20}, {BaseClose}, {BaseAtr}, {"bullish"},
                      {}, {}, {}, {}, {}) :
        Constructed(h, EmptySeries, l, 10000 * Currency, 1, 10)

\* Prices, ATRs and the account varied under a few structures.
LevelInputs ==
    \E h \in SeriesOf({30}, {BaseClose}, {0, BaseAtr}, {"bullish", "bearish"},
                      {}, {}, BOOLEAN, {}, {}),
       m \in SeriesOf({30}, {BaseClose}, {0, BaseAtr}, {"bullish"},
                      {}, {}, {}, {}, {}),
       l \in SeriesOf({3, 14, 20}, Closes, Atrs, {"bullish", "bearish"},
                      {}, BOOLEAN, {}, {}, {}),
       balance \in Balances,
       percent \in RiskPercents :
        Constructed(h, m, l, balance, percent, 10)

Init == HybridInputs \/ ScalpInputs \/ InstitutionalInputs \/ LevelInputs

\* The engine object of the current state.
Self ==
    [htf |-> htf, mtf |-> mtf, ltf |-> ltf,
     account_balance |-> account_balance, risk_percent |-> risk_percent,
     commission |-> commission,
     atr_ltf |-> atr_ltf, atr_mtf |-> atr_mtf, atr_htf |-> atr_htf,
     risk_manager |-> risk_manager, current_price |-> current_price]

\* engine.analyze_all()
analyze_all ==
    /\ pc = "constructed"
    /\ results' = all_results(Self)
    /\ pc' = "analyze_all"
    /\ UNCHANGED <<htf, mtf, ltf, account_balance, risk_percent, commission,
                   atr_ltf, atr_mtf, atr_htf, current_price, risk_manager,
                   best, rm_args, rm_result,
                   series, called, returned, now, runs,
                   zone, trade>>

\* engine.analyze_best(), which calls analyze_all itself
analyze_best ==
    /\ pc = "constructed"
    /\ results' = all_results(Self)
    /\ best' = best_result(Self)
    /\ pc' = "analyze_best"
    /\ UNCHANGED <<htf, mtf, ltf, account_balance, risk_percent, commission,
                   atr_ltf, atr_mtf, atr_htf, current_price, risk_manager,
                   rm_args, rm_result,
                   series, called, returned, now, runs,
                   zone, trade>>

Next == analyze_all \/ analyze_best

Spec == Init /\ [][Next]_vars

-----------------------------------------------------------------------------
(* RiskManager on its own: amounts and prices in whole currency units      *)

\* Bound of the distance between entry and stop, besides 1000.
MaxGap == 7

EntryPrices == {100, 250, 50000}

StopPrices(entry) ==
    {p \in {entry + k : k \in (-MaxGap)..MaxGap} \cup {entry - 1000, entry + 1000} :
        p > 0}

\* The state after RiskManager(balance, percent, comm, slip).
RiskInit ==
    \E k \in 1..MaxBalance, percent \in RiskPercents,
       comm \in {0, 10}, slip \in {0, 5} :
        /\ risk_manager = RiskManager(10000 * k, percent, comm, slip)
        /\ account_balance = 10000 * k
        /\ risk_percent = percent
        /\ commission = comm
        /\ htf = EmptySeries /\ mtf = EmptySeries /\ ltf = EmptySeries
        /\ atr_ltf = 0 /\ atr_mtf = 0 /\ atr_htf = 0
        /\ current_price = 0
        /\ pc = "risk_manager"
        /\ results = all_results(Engine(EmptySeries, EmptySeries, EmptySeries,
                                        10000 * k, percent, comm))
        /\ best = SignalResult("HYBRID")
        /\ rm_args = <<>>
        /\ rm_result = 0
        /\ detectors_idle
        /\ clock_idle
        /\ zones_idle /\ trade_idle

\* rm.calculate_position_size(entry, stop)
position_size_call ==
    /\ pc = "risk_manager"
    /\ \E entry \in EntryPrices :
         \E stop \in StopPrices(entry) :
            /\ rm_args' = <<entry, stop>>
            /\ rm_result' = calculate_position_size(risk_manager, entry, stop)
    /\ UNCHANGED <<htf, mtf, ltf, account_balance, risk_percent, commission,
                   atr_ltf, atr_mtf, atr_htf, current_price, risk_manager,
                   pc, results, best,
                   series, called, returned, now, runs,
                   zone, trade>>

RiskNext == position_size_call

SpecRisk == RiskInit /\ [][RiskNext]_vars

-----------------------------------------------------------------------------
(* Two analyses of the same engine, with the clock SignalResult reads      *)

\* Bound of the clock.
MaxNow == 1

\* SignalResult.timestamp: field(default_factory=datetime.now), read when
\* the result is constructed.
stamp(r, t) == r @@ [timestamp |-> t]

\* datetime.isoformat(), one string per instant.
isoformat(t) == ToString(t)

\* SignalResult.to_dict().  The explanation trail is left out: it is a list
\* of fixed strings chosen by the same branches as the other fields.
to_dict(self) ==
    [mode |-> self.mode,
     signal |-> self.signal,
     direction |-> self.direction,
     confidence |-> self.confidence,
     entry_price |-> self.entry_price,
     stop_loss |-> self.stop_loss,
     take_profit |-> [tp1 |-> self.take_profit_1,
                      tp2 |-> self.take_profit_2,
                      tp3 |-> self.take_profit_3],
     structure |-> self.structure,
     liquidity_swept |-> self.liquidity_swept,
     order_block_detected |-> self.order_block_detected,
     fvg_detected |-> self.fvg_detected,
     risk_reward_ratio |-> self.risk_reward_ratio,
     position_size |-> self.position_size,
     timestamp |-> isoformat(self.timestamp)]

\* engine.analyze_all() with the three results serialised: each result is
\* constructed at its own instant, the clock moving on or not in between.
analyze_all_to_dict ==
    /\ pc = "constructed"
    /\ Len(runs) < 2
    /\ \E t1 \in now..MaxNow :
         \E t2 \in t1..MaxNow :
            \E t3 \in t2..MaxNow :
                LET r == all_results(Self)
                IN  /\ runs' = Append(runs,
                           [scalp |-> to_dict(stamp(r.scalp, t1)),
                            institutional |-> to_dict(stamp(r.institutional, t2)),
                            hybrid |-> to_dict(stamp(r.hybrid, t3))])
                    /\ now' = t3
    /\ UNCHANGED <<htf, mtf, ltf, account_balance, risk_percent, commission,
                   atr_ltf, atr_mtf, atr_htf, current_price, risk_manager,
                   pc, results, best, rm_args, rm_result,
                   series, called, returned, zone, trade>>

ClockInit == ScalpInputs \/ LevelInputs

ClockNext == analyze_all_to_dict

SpecClock == ClockInit /\ [][ClockNext]_vars

-----------------------------------------------------------------------------
(* Python's list operations                                                *)

Max(a, b) == IF a >= b THEN a ELSE b

\* Python's normalisation of a slice bound in a list of n elements.
SliceIndex(i, n) == IF i < 0 THEN Max(0, n + i) ELSE Min(i, n)

\* s[start:stop]
PySlice(s, start, stop) ==
    SubSeq(s, SliceIndex(start, Len(s)) + 1, SliceIndex(stop, Len(s)))

\* s[start:]
PyTail(s, start) == PySlice(s, start, Len(s))

\* list(range(start, stop))
PyRange(start, stop) ==
    IF stop <= start THEN <<>>
    ELSE [k \in 1..(stop - start) |-> start + k - 1]

\* s[i] for a Python index i >= 0
At(s, i) == s[i + 1]

RECURSIVE SeqSum(_)
SeqSum(s) == IF s = <<>> THEN 0 ELSE Head(s) + SeqSum(Tail(s))

\* max(s) and min(s) of a non-empty list
SeqMax(s) ==
    CHOOSE x \in {s[k] : k \in 1..Len(s)} : \A k \in 1..Len(s) : s[k] <= x

SeqMin(s) ==
    CHOOSE x \in {s[k] : k \in 1..Len(s)} : \A k \in 1..Len(s) : x <= s[k]

-----------------------------------------------------------------------------
(* utils.py                                                                *)

\* The true range of the candle at Python index i >= 1 (utils.py, the body
\* of the loop of calculate_atr).
true_range(candles, i) ==
    LET high == At(candles, i).high
        low == At(candles, i).low
        prev_close == At(candles, i - 1).close
    IN  Max(high - low, Max(Abs(high - prev_close), Abs(low - prev_close)))

\* Mutant of calculate_atr: the mean is taken over every true range.
calculate_atr_all(candles, period) ==
    IF Len(candles) < period + 1 THEN <<0, 1>>
    ELSE LET tr_values ==
                 [k \in 1..(Len(candles) - 1) |-> true_range(candles, k)]
         IN  IF Len(tr_values) < period THEN <<0, 1>>
             ELSE Rat(SeqSum(tr_values), Len(tr_values))

\* calculate_atr(candles, period), an exact rational <<num, den>>.
calculate_atr(candles, period) ==
    IF Len(candles) < period + 1 THEN <<0, 1>>
    ELSE LET tr_values ==
                 [k \in 1..(Len(candles) - 1) |-> true_range(candles, k)]
         IN  IF Len(tr_values) < period THEN <<0, 1>>
             ELSE LET window == PyTail(tr_values, -period)
                  IN  Rat(SeqSum(window), Len(window))

\* The swing record appended for Python index i.
swing_point(candles, prices, i) ==
    [index |-> i, price |-> At(prices, i), time |-> At(candles, i).time]

\* The scan shared by the two find_swing_points: every index of
\* range(left_bars, len - right_bars) that is strictly above (highs) or
\* strictly below (lows) each neighbour of its window.
swing_scan(candles, left_bars, right_bars) ==
    LET n == Len(candles)
        highs == [k \in 1..n |-> candles[k].high]
        lows == [k \in 1..n |-> candles[k].low]
        is_swing_high(i) ==
            /\ \A j \in 1..left_bars : At(highs, i) > At(highs, i - j)
            /\ \A j \in 1..right_bars : At(highs, i) > At(highs, i + j)
        is_swing_low(i) ==
            /\ \A j \in 1..left_bars : At(lows, i) < At(lows, i - j)
            /\ \A j \in 1..right_bars : At(lows, i) < At(lows, i + j)
        scanned == PyRange(left_bars, n - right_bars)
        hi == SelectSeq(scanned, is_swing_high)
        lo == SelectSeq(scanned, is_swing_low)
    IN  [swing_highs |-> [k \in 1..Len(hi) |-> swing_point(candles, highs, hi[k])],
         swing_lows |-> [k \in 1..Len(lo) |-> swing_point(candles, lows, lo[k])]]

\* Mutant of find_swing_points: a neighbour of equal height is tolerated.
find_swing_points_weak(candles, left_bars, right_bars) ==
    LET n == Len(candles)
        highs == [k \in 1..n |-> candles[k].high]
        lows == [k \in 1..n |-> candles[k].low]
        is_swing_high(i) ==
            /\ \A j \in 1..left_bars : At(highs, i) >= At(highs, i - j)
            /\ \A j \in 1..right_bars : At(highs, i) >= At(highs, i + j)
        is_swing_low(i) ==
            /\ \A j \in 1..left_bars : At(lows, i) <= At(lows, i - j)
            /\ \A j \in 1..right_bars : At(lows, i) <= At(lows, i + j)
        scanned == PyRange(left_bars, n - right_bars)
        hi == SelectSeq(scanned, is_swing_high)
        lo == SelectSeq(scanned, is_swing_low)
    IN  [swing_highs |-> [k \in 1..Len(hi) |-> swing_point(candles, highs, hi[k])],
         swing_lows |-> [k \in 1..Len(lo) |-> swing_point(candles, lows, lo[k])]]

\* utils.find_swing_points(candles, left_bars, right_bars)
find_swing_points(candles, left_bars, right_bars) ==
    swing_scan(candles, left_bars, right_bars)

-----------------------------------------------------------------------------
(* structure.py                                                            *)

\* structure.find_swing_points(candles, left_bars, right_bars)
structure_find_swing_points(candles, left_bars, right_bars) ==
    IF Len(candles) < left_bars + right_bars + 1
    THEN [swing_highs |-> <<>>, swing_lows |-> <<>>]
    ELSE swing_scan(candles, left_bars, right_bars)

\* What a call that divides by zero ends with.
ZeroDivisionError == "ZeroDivisionError"

\* s[-1] and s[-2]
Last(s) == s[Len(s)]

Last2(s) == s[Len(s) - 1]

\* abs(close - level) / level < 0.02, for a level above 0
within_2_percent(close, level) == Abs(close - level) * 100 < 2 * level

\* Mutant of detect_structure: distribution is tried before accumulation.
detect_structure_distribution_first(candles) ==
    IF Len(candles) < 10 THEN "ranging"
    ELSE LET swings == structure_find_swing_points(candles, 3, 3)
             hs == swings.swing_highs
             ls == swings.swing_lows
         IN  IF Len(hs) < 2 \/ Len(ls) < 2 THEN "ranging"
             ELSE IF Last(hs).price > Last2(hs).price
                     /\ Last(ls).price > Last2(ls).price THEN "bullish"
             ELSE IF Last(hs).price < Last2(hs).price
                     /\ Last(ls).price < Last2(ls).price THEN "bearish"
             ELSE IF Last(hs).price = 0 THEN ZeroDivisionError
             ELSE IF within_2_percent(Last(candles).close, Last(hs).price)
                  THEN "distribution"
             ELSE IF Last(ls).price = 0 THEN ZeroDivisionError
             ELSE IF within_2_percent(Last(candles).close, Last(ls).price)
                  THEN "accumulation"
             ELSE "ranging"

\* detect_structure(candles)
detect_structure(candles) ==
    IF Len(candles) < 10 THEN "ranging"
    ELSE LET swings == structure_find_swing_points(candles, 3, 3)
             hs == swings.swing_highs
             ls == swings.swing_lows
         IN  IF Len(hs) < 2 \/ Len(ls) < 2 THEN "ranging"
             ELSE IF Last(hs).price > Last2(hs).price
                     /\ Last(ls).price > Last2(ls).price THEN "bullish"
             ELSE IF Last(hs).price < Last2(hs).price
                     /\ Last(ls).price < Last2(ls).price THEN "bearish"
             ELSE IF Last(ls).price = 0 THEN ZeroDivisionError
             ELSE IF within_2_percent(Last(candles).close, Last(ls).price)
                  THEN "accumulation"
             ELSE IF Last(hs).price = 0 THEN ZeroDivisionError
             ELSE IF within_2_percent(Last(candles).close, Last(hs).price)
                  THEN "distribution"
             ELSE "ranging"

\* detect_mss(candles)
detect_mss(candles) ==
    IF Len(candles) < 10 THEN FALSE
    ELSE LET swings == structure_find_swing_points(candles, 3, 3)
             hs == swings.swing_highs
             ls == swings.swing_lows
         IN  IF Len(hs) < 2 \/ Len(ls) < 2 THEN FALSE
             ELSE LET price == Last(candles).close
                      prev_high == Last2(hs).price
                      prev_low == Last2(ls).price
                  IN  \/ price * 1000 > prev_high * 1001
                      \/ price * 1000 < prev_low * 999

-----------------------------------------------------------------------------
(* liquidity.py.  A candle without the key 'volume' reads as volume 0      *)
(* everywhere (c.get('volume', 0)), and a window without any volume key    *)
(* ends like a window of zero volumes, so volume 0 stands for both.        *)

\* [c.get('high', 0) for c in s] and the like
Highs(s) == [k \in 1..Len(s) |-> s[k].high]

Lows(s) == [k \in 1..Len(s) |-> s[k].low]

\* detect_liquidity(candles, lookback)
detect_liquidity(candles, lookback) ==
    IF candles = <<>> \/ Len(candles) < lookback THEN FALSE
    ELSE LET recent_candles == PyTail(candles, -20)
             old_candles == PySlice(candles, -lookback, -20)
         IN  IF Len(old_candles) = 0 THEN FALSE
             ELSE LET old_high == SeqMax(Highs(old_candles))
                      old_low == SeqMin(Lows(old_candles))
                  IN  \E k \in 1..Len(recent_candles) :
                         LET candle == recent_candles[k]
                         IN  \/ /\ candle.high * 1000 > old_high * 1001
                                /\ candle.close < old_high
                             \/ /\ candle.low * 1000 < old_low * 999
                                /\ candle.close > old_low

\* Mutant of detect_liquidity_sweep: no minimum length.
detect_liquidity_sweep_unguarded(candles) ==
    IF candles = <<>> THEN FALSE
    ELSE LET last_candle == Last(candles)
             prev_candles == PySlice(candles, -10, -1)
         IN  IF Len(prev_candles) = 0 THEN FALSE
             ELSE LET prev_high == SeqMax(Highs(prev_candles))
                      prev_low == SeqMin(Lows(prev_candles))
                  IN  \/ /\ last_candle.high > prev_high
                         /\ last_candle.close < prev_high
                      \/ /\ last_candle.low < prev_low
                         /\ last_candle.close > prev_low

\* Mutant of detect_liquidity_sweep: the envelope is the whole history.
detect_liquidity_sweep_all_history(candles) ==
    IF candles = <<>> \/ Len(candles) < 10 THEN FALSE
    ELSE LET last_candle == Last(candles)
             prev_candles == PySlice(candles, 0, -1)
         IN  IF Len(prev_candles) = 0 THEN FALSE
             ELSE LET prev_high == SeqMax(Highs(prev_candles))
                      prev_low == SeqMin(Lows(prev_candles))
                  IN  \/ /\ last_candle.high > prev_high
                         /\ last_candle.close < prev_high
                      \/ /\ last_candle.low < prev_low
                         /\ last_candle.close > prev_low

\* detect_liquidity_sweep(candles)
detect_liquidity_sweep(candles) ==
    IF candles = <<>> \/ Len(candles) < 10 THEN FALSE
    ELSE LET last_candle == Last(candles)
             prev_candles == PySlice(candles, -10, -1)
         IN  IF Len(prev_candles) = 0 THEN FALSE
             ELSE LET prev_high == SeqMax(Highs(prev_candles))
                      prev_low == SeqMin(Lows(prev_candles))
                  IN  \/ /\ last_candle.high > prev_high
                         /\ last_candle.close < prev_high
                      \/ /\ last_candle.low < prev_low
                         /\ last_candle.close > prev_low

\* volume_confirmed_sweep(candles)
volume_confirmed_sweep(candles) ==
    IF candles = <<>> \/ Len(candles) < 20 THEN FALSE
    ELSE LET sweep_detected == detect_liquidity_sweep(candles)
             last_volume == Last(candles).volume
             prev_candles == PySlice(candles, -10, -1)
             positive(v) == v > 0
             volumes == SelectSeq([k \in 1..Len(prev_candles) |->
                                      prev_candles[k].volume], positive)
         IN  IF ~sweep_detected THEN FALSE
             ELSE IF volumes = <<>> THEN sweep_detected
             \* last_volume > avg_volume * 1.5
             ELSE 2 * Len(volumes) * last_volume > 3 * SeqSum(volumes)

\* The levels of detect_liquidity_levels when nothing is found.
no_levels ==
    [buy_stops |-> <<>>, sell_stops |-> <<>>,
     double_tops |-> <<>>, double_bottoms |-> <<>>]

\* The double top / double bottom entry of detect_liquidity_levels for a
\* list of swings: the rounded average of the last two prices when they
\* differ by less than 0.5% of it.  Values in hundredths.
double_level(swings) ==
    IF Len(swings) < 2 THEN <<>>
    ELSE LET price1 == Last2(swings).price
             price2 == Last(swings).price
         IN  IF price1 > 0 /\ price2 > 0
                /\ Abs(price1 - price2) * 400 < price1 + price2
             THEN <<Round(price1 + price2, 2, 2)>>
             ELSE <<>>

\* detect_liquidity_levels(candles); levels in hundredths.
detect_liquidity_levels(candles) ==
    IF candles = <<>> \/ Len(candles) < 20 THEN no_levels
    ELSE LET swings == find_swing_points(candles, 5, 5)
             priced(p) == p.price > 0
             highs == SelectSeq(swings.swing_highs, priced)
             lows == SelectSeq(swings.swing_lows, priced)
         IN  [buy_stops |->
                 [k \in 1..Len(highs) |-> Round(highs[k].price * 1001, 1000, 2)],
              sell_stops |->
                 [k \in 1..Len(lows) |-> Round(lows[k].price * 999, 1000, 2)],
              double_tops |-> double_level(swings.swing_highs),
              double_bottoms |-> double_level(swings.swing_lows)]

\* The result of detect_liquidity_grab when nothing is found.
no_grab ==
    [detected |-> FALSE, direction |-> None, price |-> None, type |-> None]

\* detect_liquidity_grab(candles)
detect_liquidity_grab(candles) ==
    IF candles = <<>> \/ Len(candles) < 20 THEN no_grab
    ELSE LET last_candle == Last(candles)
             prev_candles == PySlice(candles, -20, -1)
         IN  IF Len(prev_candles) < 5 THEN no_grab
             ELSE LET key_high == SeqMax(Highs(prev_candles))
                      key_low == SeqMin(Lows(prev_candles))
                  IN  IF last_candle.low < key_low /\ last_candle.close > key_low
                      THEN [detected |-> TRUE, direction |-> "bullish",
                            price |-> key_low, type |-> "sell_stops"]
                      ELSE IF last_candle.high > key_high
                              /\ last_candle.close < key_high
                      THEN [detected |-> TRUE, direction |-> "bearish",
                            price |-> key_high, type |-> "buy_stops"]
                      ELSE no_grab

\* get_liquidity_zones(candles); prices in hundredths.
get_liquidity_zones(candles) ==
    IF candles = <<>> \/ Len(candles) < 30
    THEN [buy_zones |-> <<>>, sell_zones |-> <<>>]
    ELSE LET swings == find_swing_points(candles, 5, 5)
             priced(p) == p.price > 0
             swing_highs == swings.swing_highs
             swing_lows == swings.swing_lows
             highs == SelectSeq(PyTail(swing_highs, -3), priced)
             lows == SelectSeq(PyTail(swing_lows, -3), priced)
             strength(is_strong) == IF is_strong THEN "strong" ELSE "normal"
         IN  [buy_zones |->
                 [k \in 1..Len(highs) |->
                     [price |-> Round(highs[k].price * 1001, 1000, 2),
                      strength |->
                          strength(\A j \in 1..Len(swing_highs) :
                                       swing_highs[j].price <= highs[k].price)]],
              sell_zones |->
                 [k \in 1..Len(lows) |->
                     [price |-> Round(lows[k].price * 999, 1000, 2),
                      strength |->
                          strength(\A j \in 1..Len(swing_lows) :
                                       swing_lows[j].price >= lows[k].price)]]]

-----------------------------------------------------------------------------
(* order_block.py, breaker.py, fvg.py.  An entry price, which the code     *)
(* places 38.2% into a range, is a whole number of thousandths.            *)

\* None where the code returns Optional[Dict]: a record, so that it can be
\* compared with the dictionaries.
NoDict == [type |-> None]

\* The candidate detect_order_block builds at Python index i, NoDict when
\* the iteration ends in `continue` or appends nothing.  avg_range is the
\* quotient range_sum / range_count; the candidate also carries whether the
\* move is beyond 1.5 x avg_range (`significant`).
order_block_at(candles, i) ==
    LET current == At(candles, i)
        next_candles == PySlice(candles, i + 1, i + 4)
        prev_candles == PySlice(candles, Max(0, i - 10), i)
        range_count == Len(prev_candles)
        range_sum == SeqSum([k \in 1..range_count |->
                                prev_candles[k].high - prev_candles[k].low])
        next2 == PySlice(next_candles, 0, 2)
        ob_range == current.high - current.low
        bullish == current.close > current.open
        move == IF bullish
                THEN SeqMax(Highs(next2)) - current.high
                ELSE Abs(current.low - SeqMin(Lows(next2)))
    IN  IF Len(next_candles) < 2 \/ range_count < 5 THEN NoDict
        \* move > avg_range * 1.2
        ELSE IF ~(5 * range_count * move > 6 * range_sum) THEN NoDict
        ELSE [type |-> IF bullish THEN "bullish" ELSE "bearish",
              top |-> current.high,
              bottom |-> current.low,
              entry |-> IF bullish
                        THEN current.low * 1000 + ob_range * 382
                        ELSE current.high * 1000 - ob_range * 382,
              price |-> current.close,
              time |-> current.time,
              range |-> ob_range,
              move_size |-> move,
              confidence |-> IF range_count * move > 2 * range_sum
                             THEN "high" ELSE "medium",
              significant |-> 2 * range_count * move > 3 * range_sum]

\* The dictionary of a candidate: the candidate without its bookkeeping.
order_block_dict(c) ==
    [type |-> c.type, top |-> c.top, bottom |-> c.bottom, entry |-> c.entry,
     price |-> c.price, time |-> c.time, range |-> c.range,
     move_size |-> c.move_size, confidence |-> c.confidence]

\* The loop of detect_order_block from Python index i down to 4, with the
\* candidates appended so far.
RECURSIVE order_block_scan(_, _, _)
order_block_scan(candles, i, found) ==
    IF i <= 3
    THEN IF found = <<>> THEN NoDict ELSE Last(found)
    ELSE LET c == order_block_at(candles, i)
         IN  IF c = NoDict THEN order_block_scan(candles, i - 1, found)
             ELSE IF c.significant THEN order_block_dict(c)
             ELSE order_block_scan(candles, i - 1,
                                   Append(found, order_block_dict(c)))

\* detect_order_block(candles)
detect_order_block(candles) ==
    IF Len(candles) < 10 THEN NoDict
    ELSE order_block_scan(candles, Len(candles) - 5, <<>>)

\* any(candle['low'] < level for candle in candles[-10:]) and its mirror
swept_below(candles, level) ==
    \E k \in 1..Len(PyTail(candles, -10)) : PyTail(candles, -10)[k].low < level

swept_above(candles, level) ==
    \E k \in 1..Len(PyTail(candles, -10)) : PyTail(candles, -10)[k].high > level

\* detect_breaker_block(candles)
detect_breaker_block(candles) ==
    IF Len(candles) < 20 THEN NoDict
    ELSE LET swings == find_swing_points(candles, 3, 3)
             swing_highs == swings.swing_highs
             swing_lows == swings.swing_lows
             atr14 == calculate_atr(candles, 14)
             atr == IF atr14[1] = 0 THEN <<10, 1>> ELSE atr14
             price == Last(candles).close
             current_time == Last(candles).time
         IN  IF Len(swing_highs) < 2 \/ Len(swing_lows) < 2 THEN NoDict
             ELSE LET recent_low == Last(swing_lows).price
                      prev_low == Last2(swing_lows).price
                      recent_high == Last(swing_highs).price
                      prev_high == Last2(swing_highs).price
                  IN  IF swept_below(candles, prev_low) /\ price > prev_low
                      THEN [type |-> "bullish",
                            price |-> prev_low,
                            low |-> Min(prev_low, recent_low),
                            high |-> Max(prev_low, recent_low),
                            entry |-> prev_low * 1000
                                      + Abs(prev_low - recent_low) * 382,
                            time |-> current_time,
                            confidence |-> "high",
                            atr |-> atr]
                      ELSE IF swept_above(candles, prev_high) /\ price < prev_high
                      THEN [type |-> "bearish",
                            price |-> prev_high,
                            low |-> Min(prev_high, recent_high),
                            high |-> Max(prev_high, recent_high),
                            entry |-> prev_high * 1000
                                      - Abs(prev_high - recent_high) * 382,
                            time |-> current_time,
                            confidence |-> "high",
                            atr |-> atr]
                      ELSE NoDict

\* The float 1.0 in the price units of the series: the series handed to the
\* zone checks are in tenths, so that half a unit is a price; every other
\* series is in whole units.
One == IF pc = "zones" THEN 10 ELSE 1

\* fvg_at with the entry 61.8% into the gap.
fvg_at_deep(candles, i) ==
    LET c1 == At(candles, i)
        c2 == At(candles, i + 1)
        c3 == At(candles, i + 2)
        c2_range == c2.high - c2.low
        outer == (c1.high - c1.low) + (c3.high - c3.low)
        \* c2_range > avg_range * 0.5, avg_range being 1.0 for flat candles
        too_large == IF outer > 0 THEN 4 * c2_range > outer
                     ELSE 2 * c2_range > One
    IN  IF too_large THEN NoDict
        ELSE IF c3.low > c1.high
        THEN [type |-> "bullish", top |-> c3.low, bottom |-> c1.high,
              mid |-> Rat(c3.low + c1.high, 2),
              entry |-> c1.high * 1000 + (c3.low - c1.high) * 618,
              time |-> c2.time, range |-> c3.low - c1.high,
              price |-> c3.close, index |-> i]
        ELSE IF c3.high < c1.low
        THEN [type |-> "bearish", top |-> c1.low, bottom |-> c3.high,
              mid |-> Rat(c1.low + c3.high, 2),
              entry |-> c1.low * 1000 - (c1.low - c3.high) * 618,
              time |-> c2.time, range |-> c1.low - c3.high,
              price |-> c3.close, index |-> i]
        ELSE NoDict

\* The gap detect_fvg appends for the triple starting at Python index i,
\* NoDict when it appends nothing.
fvg_at(candles, i) ==
    LET c1 == At(candles, i)
        c2 == At(candles, i + 1)
        c3 == At(candles, i + 2)
        c2_range == c2.high - c2.low
        outer == (c1.high - c1.low) + (c3.high - c3.low)
        \* c2_range > avg_range * 0.5, avg_range being 1.0 for flat candles
        too_large == IF outer > 0 THEN 4 * c2_range > outer
                     ELSE 2 * c2_range > One
    IN  IF too_large THEN NoDict
        ELSE IF c3.low > c1.high
        THEN [type |-> "bullish", top |-> c3.low, bottom |-> c1.high,
              mid |-> Rat(c3.low + c1.high, 2),
              entry |-> c1.high * 1000 + (c3.low - c1.high) * 382,
              time |-> c2.time, range |-> c3.low - c1.high,
              price |-> c3.close, index |-> i]
        ELSE IF c3.high < c1.low
        THEN [type |-> "bearish", top |-> c1.low, bottom |-> c3.high,
              mid |-> Rat(c1.low + c3.high, 2),
              entry |-> c1.low * 1000 - (c1.low - c3.high) * 382,
              time |-> c2.time, range |-> c1.low - c3.high,
              price |-> c3.close, index |-> i]
        ELSE NoDict

\* detect_fvg returning fvg_list[0], the oldest gap.
detect_fvg_oldest(candles) ==
    IF Len(candles) < 3 THEN NoDict
    ELSE LET is_gap(i) == fvg_at(candles, i) # NoDict
             fvg_list == SelectSeq(PyRange(0, Len(candles) - 2), is_gap)
         IN  IF fvg_list = <<>> THEN NoDict
             ELSE fvg_at(candles, fvg_list[1])

\* detect_fvg(candles): the most recent gap.
detect_fvg(candles) ==
    IF Len(candles) < 3 THEN NoDict
    ELSE LET is_gap(i) == fvg_at(candles, i) # NoDict
             fvg_list == SelectSeq(PyRange(0, Len(candles) - 2), is_gap)
         IN  IF fvg_list = <<>> THEN NoDict
             ELSE fvg_at(candles, Last(fvg_list))

\* d.get(key, 0)
Get(d, key) == IF key \in DOMAIN d THEN d[key] ELSE 0

\* validate_fvg(fvg, current_price)
validate_fvg(fvg, price) ==
    IF fvg = NoDict THEN FALSE
    ELSE IF Get(fvg, "type") = "bullish" THEN price > Get(fvg, "bottom")
    ELSE price < Get(fvg, "top")

\* validate_ob(ob, current_price)
validate_ob(ob, price) ==
    IF ob = NoDict THEN FALSE
    ELSE IF ~({"type", "bottom", "top"} \subseteq DOMAIN ob) THEN FALSE
    ELSE IF ob.type = "bullish" THEN price > ob.bottom
    ELSE price < ob.top

\* validate_breaker(breaker, current_price)
validate_breaker(breaker, price) ==
    IF breaker = NoDict THEN FALSE
    ELSE IF Get(breaker, "type") = "bullish" THEN price > Get(breaker, "price")
    ELSE price < Get(breaker, "price")

\* entered_zone with a candle on the edge of the zone left outside.
entered_zone_strict(candles, type, bottom, top) ==
    LET recent_candles == PyTail(candles, -10)
    IN  \E k \in 1..Len(recent_candles) :
            recent_candles[k].low < top /\ recent_candles[k].high > bottom

\* entered_zone reading every candle, not the last 10.
entered_zone_ever(candles, type, bottom, top) ==
    \E k \in 1..Len(candles) :
        candles[k].low <= top /\ candles[k].high >= bottom

\* The loop shared by the three mitigation checks over candles[-10:]: the
\* bullish and the bearish branch test the same two comparisons.
entered_zone(candles, type, bottom, top) ==
    LET recent_candles == PyTail(candles, -10)
    IN  \E k \in 1..Len(recent_candles) :
            IF type = "bullish"
            THEN recent_candles[k].low <= top /\ recent_candles[k].high >= bottom
            ELSE recent_candles[k].high >= bottom /\ recent_candles[k].low <= top

\* is_ob_mitigated(ob, candles)
is_ob_mitigated(ob, candles) ==
    IF ob = NoDict \/ candles = <<>> THEN FALSE
    ELSE entered_zone(candles, Get(ob, "type"), Get(ob, "bottom"),
                      Get(ob, "top"))

\* is_fvg_mitigated(fvg, candles)
is_fvg_mitigated(fvg, candles) ==
    IF fvg = NoDict \/ candles = <<>> THEN FALSE
    ELSE entered_zone(candles, Get(fvg, "type"), Get(fvg, "bottom"),
                      Get(fvg, "top"))

\* is_breaker_mitigated(breaker, candles)
is_breaker_mitigated(breaker, candles) ==
    IF breaker = NoDict \/ candles = <<>> THEN FALSE
    ELSE entered_zone(candles, Get(breaker, "type"), Get(breaker, "low"),
                      Get(breaker, "high"))

-----------------------------------------------------------------------------
(* The detectors called on candle sequences                                *)

\* Candle record; volume 0 also stands for a candle without volume.
Candle(open, high, low, close, volume) ==
    [open |-> open, high |-> high, low |-> low, close |-> close,
     volume |-> volume]

\* A series from its candles: time is the position, no two candles share it.
Timed(s) ==
    [k \in 1..Len(s) |->
        [time |-> k - 1, open |-> s[k].open, high |-> s[k].high,
         low |-> s[k].low, close |-> s[k].close, volume |-> s[k].volume]]

\* Bounds of the exhaustive family and of the window arguments tried on it.
MaxSmallLen == 5
MaxPeriod == 3
MaxBars == 2

\* Three candles: two of equal high, one gapping below the close before it,
\* one with a wick below the others' lows.
SmallCandles ==
    {Candle(10, 12, 9, 11, 10), Candle(11, 14, 10, 13, 10),
     Candle(13, 14, 8, 11, 20)}

\* Every series of at most MaxSmallLen of them.
SmallSeries ==
    UNION {{Timed(s) : s \in [1..n -> SmallCandles]} : n \in 0..MaxSmallLen}

\* The quiet candle of the longer families.
Flat == Candle(1000, 1010, 990, 1000, 10)

\* A series of n candles, quiet except for a peak at Python indices 4 and
\* 12 (highs h1, h2), a trough at 8 and 16 (lows l1, l2), a spike at 40
\* and the last candle, which closes at c with its low at most lo.
Wave(n, h1, h2, l1, l2, spike, c, lo) ==
    Timed([k \in 1..n |->
        IF k = n THEN Candle(1000, Max(1010, c), Min(lo, c), c, 10)
        ELSE IF k = 5 THEN Candle(1000, h1, 990, 1000, 10)
        ELSE IF k = 13 THEN Candle(1000, h2, 990, 1000, 10)
        ELSE IF k = 9 THEN Candle(1000, 1010, l1, 1000, 10)
        ELSE IF k = 17 THEN Candle(1000, 1010, l2, 1000, 10)
        ELSE IF k = 41 THEN Candle(1000, spike, 990, 1000, 10)
        ELSE Flat])

PeakHighs == {1016, 1020, 1030}

TroughLows == {984, 980, 970}

LastCloses == {960, 1000, 1040, 1100}

\* Series with two swing highs and two swing lows of a 3/3 window.
SwingSeries ==
    {Wave(n, h1, h2, l1, l2, 1010, c, lo) :
        n \in {19, 20, 21}, h1 \in PeakHighs, h2 \in PeakHighs,
        l1 \in TroughLows, l2 \in TroughLows, c \in LastCloses,
        lo \in {990, 975}}

\* Series around the longer minimum lengths.
LongSeries ==
    {Wave(n, 1020, 1030, 980, 984, spike, c, 990) :
        n \in {9, 10, 29, 30, 49, 50}, spike \in {1010, 1050},
        c \in {1000, 1040}}

\* A series of n candles, quiet except for one old candle (Python index
\* 0), one candle 5 before the last, and the last one.
Envelope(n, old, prev, last) ==
    Timed([k \in 1..n |->
        IF k = n THEN last
        ELSE IF k = n - 5 THEN prev
        ELSE IF k = 1 THEN old
        ELSE Flat])

\* Last candles: quiet, wick above, break above, wick below, break below,
\* wick on both sides; quiet, elevated and high volume.
LastCandles ==
    {Candle(1000, h, l, c, v) :
        h \in {1010, 1025}, l \in {990, 975}, c \in {1000, 1022, 978},
        v \in {0, 12, 15, 16}}
    \cap {x \in [open : {1000}, high : {1010, 1025}, low : {990, 975},
                 close : {1000, 1022, 978}, volume : {0, 12, 15, 16}] :
             x.low <= x.close /\ x.close <= x.high}

SweepSeries ==
    {Envelope(n, old, prev, last) :
        n \in {9, 10, 11, 19, 20, 21},
        old \in {Flat, Candle(1000, 1050, 950, 1000, 10)},
        prev \in {Flat, Candle(1000, 1020, 980, 1000, 0)},
        last \in LastCandles}

\* A candle of direction d with wicks, and the candle after it, which
\* moves m beyond it in that direction.
Source(d) ==
    IF d = "bullish" THEN Candle(995, 1010, 990, 1005, 10)
    ELSE Candle(1005, 1010, 990, 995, 10)

Impulse(d, m) ==
    IF d = "bullish" THEN Candle(1000, 1010 + m, 990, 1000, 10)
    ELSE Candle(1000, 1010, 990 - m, 1000, 10)

Moves == {0, 26, 32, 36, 60}

\* Series with a source candle at Python indices 6 and 9, each followed by
\* its impulse.
BlockSeries ==
    {Timed([k \in 1..n |->
        IF k = 7 THEN Source(d1)
        ELSE IF k = 8 THEN Impulse(d1, m1)
        ELSE IF k = 10 THEN Source(d2)
        ELSE IF k = 11 THEN Impulse(d2, m2)
        ELSE Flat]) :
        n \in {9, 14, 15}, d1 \in {"bullish", "bearish"},
        d2 \in {"bullish", "bearish"}, m1 \in Moves, m2 \in Moves}

\* A bearish candle at Python index 9 with a long lower wick, followed by
\* candles that stay above its low and rise.
WickSeries ==
    {Timed([k \in 1..15 |->
        IF k = 10 THEN Candle(1005, 1010, low, 995, 10)
        ELSE IF k = 11 THEN Candle(1000, 1010 + up, 990, 1000 + up, 10)
        ELSE IF k = 12 THEN Candle(1000 + up, 1040 + up, 990 + up,
                                   1030 + up, 10)
        ELSE Flat]) :
        low \in {930, 980}, up \in {0, 40}}

\* Gaps between the first and the third candle of a triple.
GapSeries ==
    {Timed(<<Candle(1000, 1010, 990, 1000, 10),
             Candle(1010 + g, 1012 + g, 1010 + g - r, 1012 + g, 10),
             Candle(1030, 1040, 1010 + g, 1035, 10), Flat>>) :
        g \in {-2, 0, 6}, r \in {2, 12}}

DetectorSeries ==
    SmallSeries \cup SwingSeries \cup LongSeries \cup SweepSeries
    \cup BlockSeries \cup WickSeries \cup GapSeries

\* A caller holding a series; the engine is not involved.
DetectInit ==
    /\ series \in DetectorSeries
    /\ called = <<>>
    /\ returned = <<>>
    /\ clock_idle
    /\ zones_idle /\ trade_idle
    /\ risk_manager = RiskManager(10000, 1, 10, 5)
    /\ account_balance = 10000
    /\ risk_percent = 1
    /\ commission = 10
    /\ htf = EmptySeries /\ mtf = EmptySeries /\ ltf = EmptySeries
    /\ atr_ltf = 0 /\ atr_mtf = 0 /\ atr_htf = 0
    /\ current_price = 0
    /\ pc = "detectors"
    /\ results = all_results(Engine(EmptySeries, EmptySeries, EmptySeries,
                                    10000, 1, 10))
    /\ best = SignalResult("HYBRID")
    /\ rm_args = <<>>
    /\ rm_result = 0

\* The caller's one call, <<name, arguments after the series>>, returning
\* value.
Call(call, value) ==
    /\ pc = "detectors"
    /\ called = <<>>
    /\ called' = call
    /\ returned' = value
    /\ UNCHANGED <<htf, mtf, ltf, account_balance, risk_percent, commission,
                   atr_ltf, atr_mtf, atr_htf, current_price, risk_manager,
                   pc, results, best, rm_args, rm_result, series, now, runs,
                   zone, trade>>

Periods == (1..MaxPeriod) \cup {14}

Bars == {<<l, r>> : l \in 1..MaxBars, r \in 1..MaxBars} \cup {<<3, 3>>, <<5, 5>>}

call_calculate_atr ==
    \E period \in Periods :
        Call(<<"calculate_atr", period>>, calculate_atr(series, period))

call_find_swing_points ==
    \E b \in Bars :
        Call(<<"find_swing_points", b[1], b[2]>>, find_swing_points(series, b[1], b[2]))

call_structure_find_swing_points ==
    \E b \in Bars :
        Call(<<"structure.find_swing_points", b[1], b[2]>>,
             structure_find_swing_points(series, b[1], b[2]))

call_detect_structure ==
    Call(<<"detect_structure">>, detect_structure(series))

call_detect_mss ==
    Call(<<"detect_mss">>, detect_mss(series))

call_detect_liquidity ==
    Call(<<"detect_liquidity", 50>>, detect_liquidity(series, 50))

call_detect_liquidity_sweep ==
    Call(<<"detect_liquidity_sweep">>, detect_liquidity_sweep(series))

call_volume_confirmed_sweep ==
    Call(<<"volume_confirmed_sweep">>, volume_confirmed_sweep(series))

call_detect_liquidity_levels ==
    Call(<<"detect_liquidity_levels">>, detect_liquidity_levels(series))

call_detect_liquidity_grab ==
    Call(<<"detect_liquidity_grab">>, detect_liquidity_grab(series))

call_get_liquidity_zones ==
    Call(<<"get_liquidity_zones">>, get_liquidity_zones(series))

call_detect_order_block ==
    Call(<<"detect_order_block">>, detect_order_block(series))

call_detect_breaker_block ==
    Call(<<"detect_breaker_block">>, detect_breaker_block(series))

call_detect_fvg ==
    Call(<<"detect_fvg">>, detect_fvg(series))

DetectNext ==
    \/ call_calculate_atr
    \/ call_find_swing_points
    \/ call_structure_find_swing_points
    \/ call_detect_structure
    \/ call_detect_mss
    \/ call_detect_liquidity
    \/ call_detect_liquidity_sweep
    \/ call_volume_confirmed_sweep
    \/ call_detect_liquidity_levels
    \/ call_detect_liquidity_grab
    \/ call_get_liquidity_zones
    \/ call_detect_order_block
    \/ call_detect_breaker_block
    \/ call_detect_fvg

SpecDetect == DetectInit /\ [][DetectNext]_vars

-----------------------------------------------------------------------------
(* The zone checks on their own: prices in tenths of a unit                *)

\* A candle that opens and closes at its high.
Bar(low, high) == Candle(high, high, low, high, 10)

\* Three candles around the level 1000 (100.0): the first ends at the level
\* with range r1, the second starts from it with range r2, the third lies g
\* beyond it with range r3, upwards for "bullish" and downwards for
\* "bearish".
Triple(d, g, r1, r2, r3) ==
    IF d = "bullish"
    THEN <<Bar(1000 - r1, 1000), Bar(1000, 1000 + r2),
           Bar(1000 + g, 1000 + g + r3)>>
    ELSE <<Bar(1000, 1000 + r1), Bar(1000 - r2, 1000),
           Bar(1000 - g - r3, 1000 - g)>>

Directions == {"bullish", "bearish"}

Gaps == {-5, 0, 1, 20}

OuterRanges == {0, 10}

MiddleRanges == {0, 3, 5, 6, 20}

\* Every three-candle series of the family.
TripleSeries ==
    {Timed(Triple(d, g, r1, r2, r3)) :
        d \in Directions, g \in Gaps, r1 \in OuterRanges,
        r2 \in MiddleRanges, r3 \in OuterRanges}

\* Two triples one after the other.
TwoGapSeries ==
    {Timed(Triple(d1, g1, 10, r1, 10) \o Triple(d2, g2, 10, r2, 10)) :
        d1 \in Directions, d2 \in Directions, g1 \in {0, 20}, g2 \in {0, 20},
        r1 \in {3, 20}, r2 \in {3, 20}}

\* n candles away from everything the triple touched, beyond its third
\* candle.
Away(d, n) ==
    [k \in 1..n |-> IF d = "bullish" THEN Bar(1100, 1110) ELSE Bar(890, 900)]

\* Bound on the number of candles of a series beyond the 10 that the
\* mitigation checks read.
MaxOlder == 3

\* A triple followed by candles that stay away from it, so that the triple
\* is inside, across or before the last 10 candles.
GapThenAwaySeries ==
    {Timed(Triple(d, g, 10, r2, 10) \o Away(d, n - 3)) :
        d \in Directions, g \in {0, 20}, r2 \in {3, 20},
        n \in {4} \cup (10..(10 + MaxOlder))}

\* The candles a zone [1000, 1020] can meet: beyond it, on its edges,
\* inside it, across it.
Visitors ==
    {Bar(1021, 1030), Bar(1020, 1030), Bar(1005, 1010), Bar(990, 1030),
     Bar(990, 1000), Bar(980, 999)}

\* n candles away from the zone except the visitor at Python index k.
VisitSeries ==
    {Timed([j \in 1..n |-> IF j = k + 1 THEN v ELSE Bar(1100, 1110)]) :
        n \in {1} \cup (10..(10 + MaxOlder)), k \in 0..MaxOlder,
        v \in Visitors}

ZoneSeries ==
    {<<>>} \cup TripleSeries \cup TwoGapSeries \cup GapThenAwaySeries
    \cup VisitSeries

\* The zones a caller holds before any detection: order blocks and gaps
\* carry top and bottom, breaker blocks carry low, high and price.
ZoneDicts ==
    {[type |-> d, top |-> 1020, bottom |-> 1000] : d \in Directions}
    \cup {[type |-> d, low |-> 1000, high |-> 1020,
           price |-> IF d = "bullish" THEN 1020 ELSE 1000] :
            d \in Directions}
    \cup {NoDict}

ZoneInit ==
    /\ series \in ZoneSeries
    /\ zone \in ZoneDicts
    /\ called = <<>>
    /\ returned = <<>>
    /\ clock_idle
    /\ trade_idle
    /\ risk_manager = RiskManager(10000, 1, 10, 5)
    /\ account_balance = 10000
    /\ risk_percent = 1
    /\ commission = 10
    /\ htf = EmptySeries /\ mtf = EmptySeries /\ ltf = EmptySeries
    /\ atr_ltf = 0 /\ atr_mtf = 0 /\ atr_htf = 0
    /\ current_price = 0
    /\ pc = "zones"
    /\ results = all_results(Engine(EmptySeries, EmptySeries, EmptySeries,
                                    10000, 1, 10))
    /\ best = SignalResult("HYBRID")
    /\ rm_args = <<>>
    /\ rm_result = 0

\* The caller detects a gap in its series and keeps it as its zone.
call_detect_fvg_keep ==
    /\ pc = "zones"
    /\ called = <<>>
    /\ called' = <<"detect_fvg">>
    /\ returned' = detect_fvg(series)
    /\ zone' = detect_fvg(series)
    /\ UNCHANGED <<htf, mtf, ltf, account_balance, risk_percent, commission,
                   atr_ltf, atr_mtf, atr_htf, current_price, risk_manager,
                   pc, results, best, rm_args, rm_result, series, now, runs,
                   trade>>

\* The caller's check of the zone it holds, <<name, price>> or <<name>>
\* (the candles are the series), returning value; nothing else changes.
Check(call, value) ==
    /\ pc = "zones"
    /\ called = <<>> \/ called = <<"detect_fvg">>
    /\ called' = call
    /\ returned' = value
    /\ UNCHANGED <<htf, mtf, ltf, account_balance, risk_percent, commission,
                   atr_ltf, atr_mtf, atr_htf, current_price, risk_manager,
                   pc, results, best, rm_args, rm_result, series, now, runs,
                   zone, trade>>

\* Current prices on and next to the edges of a zone.
EdgePrices(z) ==
    LET edges == {z[key] : key \in DOMAIN z \cap {"bottom", "top", "price"}}
    IN  IF edges = {} THEN {1000}
        ELSE UNION {{e - 1, e, e + 1} : e \in edges}

call_validate_fvg ==
    \E price \in EdgePrices(zone) :
        Check(<<"validate_fvg", price>>, validate_fvg(zone, price))

call_validate_ob ==
    \E price \in EdgePrices(zone) :
        Check(<<"validate_ob", price>>, validate_ob(zone, price))

call_validate_breaker ==
    \E price \in EdgePrices(zone) :
        Check(<<"validate_breaker", price>>, validate_breaker(zone, price))

call_is_ob_mitigated ==
    Check(<<"is_ob_mitigated">>, is_ob_mitigated(zone, series))

call_is_fvg_mitigated ==
    Check(<<"is_fvg_mitigated">>, is_fvg_mitigated(zone, series))

call_is_breaker_mitigated ==
    Check(<<"is_breaker_mitigated">>, is_breaker_mitigated(zone, series))

ZoneNext ==
    \/ call_detect_fvg_keep
    \/ call_validate_fvg
    \/ call_validate_ob
    \/ call_validate_breaker
    \/ call_is_ob_mitigated
    \/ call_is_fvg_mitigated
    \/ call_is_breaker_mitigated

SpecZone == ZoneInit /\ [][ZoneNext]_vars

-----------------------------------------------------------------------------
(* TradeStateMachine (trade/state_machine.py) and its use by the           *)
(* Backtester (backtest/runner.py): prices in whole units                  *)

\* TradeStateMachine(entry, sl, tp)
TradeStateMachine(entry, sl, tp) ==
    [entry |-> entry, sl |-> sl, tp |-> tp, state |-> "OPEN", be |-> entry]

\* update without the move to break even.
update_no_break_even(self, price) ==
    LET at_tp == IF price >= self.tp THEN [self EXCEPT !.state = "TP_HIT"]
                 ELSE self
    IN  IF price <= at_tp.sl THEN [at_tp EXCEPT !.state = "SL_HIT"]
        ELSE at_tp

\* The object after self.update(price): the three ifs in turn.  The value
\* returned is its state.
update(self, price) ==
    LET at_be == IF self.state = "OPEN"
                    /\ price >= self.entry + (self.entry - self.sl)
                 THEN [self EXCEPT !.state = "BREAK_EVEN", !.sl = self.entry]
                 ELSE self
        at_tp == IF price >= at_be.tp THEN [at_be EXCEPT !.state = "TP_HIT"]
                 ELSE at_be
    IN  IF price <= at_tp.sl THEN [at_tp EXCEPT !.state = "SL_HIT"]
        ELSE at_tp

\* Bound on the prices of a trade and of its updates.
MaxPrice == 6

Prices == 0..MaxPrice

\* A caller of its own opens a trade with any three prices.
OpenedTrades ==
    {TradeStateMachine(entry, sl, tp) :
        entry \in Prices, sl \in Prices, tp \in Prices}

\* Backtester.run opens a trade from the last candle on a BUY signal:
\* entry its close, sl its low, tp = entry + (entry - sl) * 2.
BacktestTrades ==
    {TradeStateMachine(close, low, close + (close - low) * 2) :
        close \in Prices, low \in Prices}

TradeInit ==
    /\ \/ pc = "trade" /\ trade \in OpenedTrades
       \/ pc = "backtest" /\ trade \in BacktestTrades
    /\ detectors_idle
    /\ clock_idle
    /\ zones_idle
    /\ risk_manager = RiskManager(10000, 1, 10, 5)
    /\ account_balance = 10000
    /\ risk_percent = 1
    /\ commission = 10
    /\ htf = EmptySeries /\ mtf = EmptySeries /\ ltf = EmptySeries
    /\ atr_ltf = 0 /\ atr_mtf = 0 /\ atr_htf = 0
    /\ current_price = 0
    /\ results = all_results(Engine(EmptySeries, EmptySeries, EmptySeries,
                                    10000, 1, 10))
    /\ best = SignalResult("HYBRID")
    /\ rm_args = <<>>
    /\ rm_result = 0

\* trade.update(price) with the value it returns.
Updated(price) ==
    /\ trade' = update(trade, price)
    /\ called' = <<"update", price>>
    /\ returned' = update(trade, price).state
    /\ UNCHANGED <<htf, mtf, ltf, account_balance, risk_percent, commission,
                   atr_ltf, atr_mtf, atr_htf, current_price, risk_manager,
                   results, best, rm_args, rm_result, series, now, runs,
                   zone>>

\* A caller of its own updates its trade whenever it likes.
trade_update ==
    /\ pc = "trade"
    /\ \E price \in Prices : Updated(price)
    /\ pc' = pc

\* One turn of the loop of Backtester.run over the later candles: update
\* with the close, and leave the loop on TP_HIT or SL_HIT.
backtest_update ==
    /\ pc = "backtest"
    /\ \E price \in Prices : Updated(price)
    /\ pc' = IF trade'.state \in {"TP_HIT", "SL_HIT"} THEN "backtest_done"
             ELSE "backtest"

TradeNext == trade_update \/ backtest_update

SpecTrade == TradeInit /\ [][TradeNext]_vars

-----------------------------------------------------------------------------
(* Properties of the engine                                                *)

\* The results the completed call has returned.
Produced ==
    IF pc = "constructed" THEN {}
    ELSE {results.scalp, results.institutional, results.hybrid}
         \cup (IF pc = "analyze_best" THEN {best} ELSE {})

Directional(r) == r.direction \in {"LONG", "SHORT"}

Trending(structure) == structure \in {"bullish", "bearish"}

\* C1: when each of the three series is empty or shorter than 10 candles,
\* analyze_all and analyze_best complete (both calls are enabled on the
\* constructed engine) and every result they return has signal NO_TRADE,
\* direction NO_TRADE, confidence 0 and entry, stop loss and the three
\* take-profits equal to 0.
C1_ShortSeriesNoTrade ==
    (htf.len < 10 /\ mtf.len < 10 /\ ltf.len < 10) =>
        /\ pc = "constructed" => (ENABLED analyze_all) /\ (ENABLED analyze_best)
        /\ \A r \in Produced :
              /\ r.signal = "NO_TRADE"
              /\ r.direction = "NO_TRADE"
              /\ r.confidence = 0
              /\ r.entry_price = 0
              /\ r.stop_loss = 0
              /\ r.take_profit_1 = 0
              /\ r.take_profit_2 = 0
              /\ r.take_profit_3 = 0

\* C1 witness: analyze_best has returned on three non-empty series of 9
\* candles, where the hybrid analysis goes all the way to _build_trade.
C1_Witness ==
    /\ pc = "analyze_best"
    /\ htf.len = 9 /\ mtf.len = 9 /\ ltf.len = 9
    /\ best.mode = "HYBRID"
    /\ best.structure = "HTF:ranging | MTF:ranging | LTF:ranging"

\* C2: the signal label of every result is NO_TRADE when no direction was
\* determined or the confidence is below 60, else STRONG_<DIR> at 85 and
\* above, <DIR> from 70 to 84 and WEAK_<DIR> from 60 to 69.
C2_SignalLabel ==
    \A r \in Produced :
        r.signal =
            IF ~Directional(r) \/ r.confidence < 60 THEN "NO_TRADE"
            ELSE IF r.confidence >= 85 THEN "STRONG_" \o r.direction
            ELSE IF r.confidence >= 70 THEN r.direction
            ELSE "WEAK_" \o r.direction

\* C3: in the hybrid analysis, when the higher and the medium timeframe
\* are not both bullish or both bearish, the result is NO_TRADE with no
\* direction.
C3_HybridNeedsAlignment ==
    pc # "constructed" =>
        (~(Trending(tf_structure(htf)) /\ tf_structure(htf) = tf_structure(mtf)) =>
            /\ results.hybrid.direction = "NO_TRADE"
            /\ results.hybrid.signal = "NO_TRADE")

\* The base confidence the claimed precedence gives: full alignment, then
\* higher + medium with the lower timeframe ranging, then higher only.
C4_Base(h, m, l) ==
    IF h = m /\ m = l THEN 85
    ELSE IF h = m /\ l = "ranging" THEN 70
    ELSE 60

Factors == {"sweep", "fvg", "ob", "breaker", "mss"}

\* The engine with factor f of timeframe tf turned on.
WithFactor(self, tf, f) ==
    [self EXCEPT ![tf] = [@ EXCEPT ![f] = TRUE]]

\* C5: every reported confidence lies in 0..100, and turning one more
\* confirmation factor of one timeframe from false to true, everything
\* else unchanged, lowers the confidence of no mode.
C5_ConfidenceMonotone ==
    pc # "constructed" =>
        /\ \A r \in Produced : r.confidence \in 0..100
        /\ \A tf \in {"htf", "mtf", "ltf"}, f \in Factors :
              (~Self[tf][f] /\ WellFormed(WithFactor(Self, tf, f)[tf])) =>
                  LET more == all_results(WithFactor(Self, tf, f))
                  IN  /\ more.scalp.confidence >= results.scalp.confidence
                      /\ more.institutional.confidence
                             >= results.institutional.confidence
                      /\ more.hybrid.confidence >= results.hybrid.confidence

\* C5 witness: an institutional result whose factors sum to 110, reported
\* as 100, with the structure-shift factor still off.
C5_Witness ==
    /\ pc = "analyze_all"
    /\ Trending(tf_structure(htf))
    /\ tf_ob(htf) /\ tf_breaker(htf) /\ tf_sweep(htf) /\ ~tf_mss(htf)
    /\ results.institutional.confidence = 100

\* C6: every result with a direction reports stop_loss < entry < tp1 < tp2
\* < tp3 when LONG and stop_loss > entry > tp1 > tp2 > tp3 when SHORT, the
\* stop lying one stop distance on the adverse side of the entry and the
\* targets 2, 3 and 5 stop distances on the favourable side.
C6_LevelsOrdered ==
    \A r \in Produced :
        Directional(r) =>
            IF r.direction = "LONG"
            THEN /\ r.stop_loss < r.entry_price
                 /\ r.entry_price < r.take_profit_1
                 /\ r.take_profit_1 < r.take_profit_2
                 /\ r.take_profit_2 < r.take_profit_3
            ELSE /\ r.stop_loss > r.entry_price
                 /\ r.entry_price > r.take_profit_1
                 /\ r.take_profit_1 > r.take_profit_2
                 /\ r.take_profit_2 > r.take_profit_3

\* C7: when a trade is built, the stop distance is 1.5 x the
\* lower-timeframe ATR if that ATR is not zero, and lies between 0.5% and
\* 1% of the current price if it is zero.
C7_StopDistance ==
    (\E r \in Produced : Directional(r)) =>
        LET price == ltf.close
            d == stop_distance(Self, price)
        IN  /\ atr_ltf # 0 => 2 * d = 3 * atr_ltf
            /\ atr_ltf = 0 => (200 * d >= price /\ 100 * d <= price)

\* The position size the specification describes, in ten-thousandths:
\* (balance x risk%) / distance, reduced by (1 - commission - slippage),
\* capped at balance x 0.2 / entry.
C8_ClaimedSize(balance, percent, comm, slip, distance, entry) ==
    LET raw == RatMul(RatMul(<<balance, 1>>, Rat(percent, 100)), <<1, distance>>)
        reduced == RatMul(raw, Rat(10000 - comm - slip, 10000))
        cap == RatMul(Rat(balance * 2, 10), <<1, entry>>)
        size == RatMin(reduced, cap)
    IN  Round(size[1], size[2], 4)

\* C8: the position_size of every result with a direction is the size the
\* specification describes: reduced by commission and slippage and capped
\* at account_balance x 0.2 / entry_price.
C8_PositionSize ==
    \A r \in Produced :
        (Directional(r) /\ stop_distance(Self, ltf.close) > 0) =>
            r.position_size =
                C8_ClaimedSize(account_balance, risk_percent, commission,
                               risk_manager.slippage,
                               stop_distance(Self, ltf.close), ltf.close)

\* C10: the entry price of a result with a direction equals the current
\* lower-timeframe close only when no zone (lower-timeframe fair value gap,
\* higher-timeframe order block, breaker) was detected; with a zone it is
\* the average of the zone entries.
C10_EntryFromZones ==
    \A r \in Produced :
        (Directional(r) /\ r.entry_price * Cent = ltf.close) =>
            ~(tf_fvg(ltf) \/ tf_ob(htf) \/ tf_breaker(htf) \/ tf_breaker(mtf))

-----------------------------------------------------------------------------
(* Properties of RiskManager                                               *)

\* The exact size of the claim, a rational: min(risk_amount / |entry - stop|
\* x (1 - commission - slippage), account_balance x 0.2 / entry).
C9_Exact(rm, entry, stop) ==
    LET risk == Rat(rm.account_balance * rm.risk_percent[1], rm.risk_percent[2])
        reduced == RatMul(RatMul(risk, <<1, Abs(entry - stop)>>),
                          Rat(10000 - rm.commission - rm.slippage, 10000))
        cap == Rat(rm.account_balance * 2, 10 * entry)
    IN  IF RatLeq(reduced, cap) THEN reduced ELSE cap

\* C9 as amended: calculate_position_size(entry, stop) returns 0 when entry
\* equals stop and otherwise the size min(risk_amount / |entry - stop| x
\* (1 - commission - slippage), account_balance x 0.2 / entry) rounded to 4
\* decimals, that is a multiple of 0.0001 at most 0.00005 away from it; for
\* balance 10000, risk 1%, entry 50000, stop 49000, commission 0.001 and
\* slippage 0.0005 it returns 0.04.
C9_PositionSizeRounded ==
    rm_args # <<>> =>
        LET entry == rm_args[1]
            stop == rm_args[2]
            x == C9_Exact(risk_manager, entry, stop)
        IN  /\ entry = stop => rm_result = 0
            /\ entry # stop =>
                   2 * Abs(rm_result * x[2] - 10000 * x[1]) <= x[2]
            /\ (risk_manager = RiskManager(10000, 1, 10, 5)
                   /\ entry = 50000 /\ stop = 49000) => rm_result = 400

\* C9 witness: the call of the example, where the limit binds, has
\* returned 0.04.
C9_Witness ==
    /\ risk_manager = RiskManager(10000, 1, 10, 5)
    /\ rm_args = <<50000, 49000>>
    /\ rm_result = 400
    /\ C9_Exact(risk_manager, 50000, 49000) = <<1, 25>>

\* C9 as stated: the value returned is min(...) itself.
C9_PositionSizeExact ==
    rm_args # <<>> =>
        LET entry == rm_args[1]
            stop == rm_args[2]
            x == C9_Exact(risk_manager, entry, stop)
        IN  /\ entry = stop => rm_result = 0
            /\ entry # stop => rm_result * x[2] = 10000 * x[1]

-----------------------------------------------------------------------------
(* Properties of two analyses                                              *)

\* C11: two analyses of the same three series with the same configuration
\* return results equal in every field that to_dict emits.
C11_Deterministic ==
    Len(runs) = 2 => runs[1] = runs[2]

-----------------------------------------------------------------------------
(* Properties of the detectors                                             *)

\* The candles before the last one.
C12_Before == PySlice(series, 0, -1)

\* C12: a detector called on a series shorter than its minimum length
\* (period + 1 for the average true range, left + right + 1 for the swing
\* finders, 10 for detect_structure, detect_mss, detect_liquidity_sweep and
\* detect_order_block, 20 for volume_confirmed_sweep, the levels, the grab
\* and the breaker, 30 for the zones, the lookback for detect_liquidity, 3
\* for detect_fvg), the empty series included, returns its neutral value.
C12_ShortSeriesNeutral ==
    called # <<>> =>
        LET name == called[1]
            n == Len(series)
            no_swings == [swing_highs |-> <<>>, swing_lows |-> <<>>]
        IN  /\ (name = "calculate_atr" /\ n < called[2] + 1) =>
                   returned = <<0, 1>>
            /\ (name \in {"find_swing_points", "structure.find_swing_points"}
                   /\ n < called[2] + called[3] + 1) => returned = no_swings
            /\ (name = "detect_structure" /\ n < 10) => returned = "ranging"
            /\ (name = "detect_mss" /\ n < 10) => returned = FALSE
            /\ (name = "detect_liquidity" /\ n < called[2]) => returned = FALSE
            /\ (name = "detect_liquidity_sweep" /\ n < 10) => returned = FALSE
            /\ (name = "volume_confirmed_sweep" /\ n < 20) => returned = FALSE
            /\ (name = "detect_liquidity_levels" /\ n < 20) =>
                   returned = [buy_stops |-> <<>>, sell_stops |-> <<>>,
                               double_tops |-> <<>>, double_bottoms |-> <<>>]
            /\ (name = "detect_liquidity_grab" /\ n < 20) =>
                   returned.detected = FALSE /\ returned.direction = None
            /\ (name = "get_liquidity_zones" /\ n < 30) =>
                   returned = [buy_zones |-> <<>>, sell_zones |-> <<>>]
            /\ (name = "detect_order_block" /\ n < 10) => returned = NoDict
            /\ (name = "detect_breaker_block" /\ n < 20) => returned = NoDict
            /\ (name = "detect_fvg" /\ n < 3) => returned = NoDict

\* C12 witness: detect_liquidity_sweep has returned false on 9 candles
\* whose last one dips below all the others and closes back above them.
C12_Witness ==
    /\ called = <<"detect_liquidity_sweep">>
    /\ Len(series) = 9
    /\ Last(series).low < SeqMin(Lows(C12_Before))
    /\ Last(series).close > SeqMin(Lows(C12_Before))
    /\ returned = FALSE

\* The true range of the k-th candle of s (k >= 2), as the claim states it.
C13_TrueRange(s, k) ==
    LET a == s[k].high - s[k].low
        b == Abs(s[k].high - s[k - 1].close)
        c == Abs(s[k].low - s[k - 1].close)
    IN  IF a >= b /\ a >= c THEN a ELSE IF b >= c THEN b ELSE c

\* The sum of the true ranges of the last `period` candles of s.
C13_WindowSum(s, period) ==
    SeqSum([k \in 1..period |-> C13_TrueRange(s, Len(s) - period + k)])

\* C13: calculate_atr(series, period) returns 0 below period + 1 candles
\* and otherwise the mean of the true ranges of the last `period` candles,
\* the same value as on the last period + 1 candles alone.
C13_TrailingMean ==
    (called # <<>> /\ called[1] = "calculate_atr") =>
        LET period == called[2]
            n == Len(series)
        IN  /\ n < period + 1 => returned = <<0, 1>>
            /\ n >= period + 1 =>
                   /\ returned[1] * period
                          = returned[2] * C13_WindowSum(series, period)
                   /\ returned = calculate_atr(PyTail(series, -(period + 1)),
                                               period)

\* C13 witness: a mean over 2 of 4 true ranges which differs from the mean
\* over all 4.
C13_Witness ==
    /\ called = <<"calculate_atr", 2>>
    /\ Len(series) = 5
    /\ returned[1] * 2 = returned[2] * C13_WindowSum(series, 2)
    /\ returned[1] * 4 # returned[2] * C13_WindowSum(series, 4)

\* The Python indices the claim makes swing highs and swing lows.
C14_SwingHighs(s, left, right) ==
    {i \in 0..(Len(s) - 1) :
        /\ left <= i /\ i < Len(s) - right
        /\ \A j \in 1..left : s[i + 1].high > s[i + 1 - j].high
        /\ \A j \in 1..right : s[i + 1].high > s[i + 1 + j].high}

C14_SwingLows(s, left, right) ==
    {i \in 0..(Len(s) - 1) :
        /\ left <= i /\ i < Len(s) - right
        /\ \A j \in 1..left : s[i + 1].low < s[i + 1 - j].low
        /\ \A j \in 1..right : s[i + 1].low < s[i + 1 + j].low}

\* C14: both find_swing_points report index i as a swing high exactly when
\* left <= i < len - right and the high at i is strictly above the high of
\* each of the `left` candles before and the `right` candles after it, the
\* mirrored rule holding for swing lows; each list is in increasing index
\* order and carries the high (low) of its candle.
C14_StrictSwings ==
    (called # <<>>
        /\ called[1] \in {"find_swing_points", "structure.find_swing_points"}) =>
        LET hs == returned.swing_highs
            ls == returned.swing_lows
        IN  /\ {hs[k].index : k \in 1..Len(hs)}
                   = C14_SwingHighs(series, called[2], called[3])
            /\ {ls[k].index : k \in 1..Len(ls)}
                   = C14_SwingLows(series, called[2], called[3])
            /\ \A k \in 1..(Len(hs) - 1) : hs[k].index < hs[k + 1].index
            /\ \A k \in 1..(Len(ls) - 1) : ls[k].index < ls[k + 1].index
            /\ \A k \in 1..Len(hs) : hs[k].price = series[hs[k].index + 1].high
            /\ \A k \in 1..Len(ls) : ls[k].price = series[ls[k].index + 1].low

\* C14 witness: with a 1/1 window on 5 candles, the candle at index 1 has
\* the high of its right neighbour and is no swing high, while two swing
\* lows are reported in order.
C14_Witness ==
    /\ called = <<"find_swing_points", 1, 1>>
    /\ Len(series) = 5
    /\ series[2].high = series[3].high
    /\ series[2].high > series[1].high
    /\ returned.swing_highs = <<>>
    /\ Len(returned.swing_lows) = 2

\* The greatest element of a non-empty set of numbers.
C15_Latest(S) == CHOOSE x \in S : \A y \in S : y <= x

\* The decision list of the claim on series s.
C15_Decision(s) ==
    LET H == C14_SwingHighs(s, 3, 3)
        L == C14_SwingLows(s, 3, 3)
    IN  IF Cardinality(H) < 2 \/ Cardinality(L) < 2 THEN "ranging"
        ELSE LET high1 == s[C15_Latest(H) + 1].high
                 high0 == s[C15_Latest(H \ {C15_Latest(H)}) + 1].high
                 low1 == s[C15_Latest(L) + 1].low
                 low0 == s[C15_Latest(L \ {C15_Latest(L)}) + 1].low
                 close == s[Len(s)].close
             IN  IF high1 > high0 /\ low1 > low0 THEN "bullish"
                 ELSE IF high1 < high0 /\ low1 < low0 THEN "bearish"
                 ELSE IF 100 * Abs(close - low1) < 2 * low1 THEN "accumulation"
                 ELSE IF 100 * Abs(close - high1) < 2 * high1 THEN "distribution"
                 ELSE "ranging"

\* C15: detect_structure returns 'ranging' with fewer than 2 swing highs or
\* fewer than 2 swing lows of the 3/3 window, else 'bullish' when the latest
\* swing high and the latest swing low are both above their predecessors,
\* else 'bearish' when both are below, else 'accumulation' when the last
\* close is within 2% of the latest swing low, else 'distribution' when it
\* is within 2% of the latest swing high, else 'ranging'.
C15_DecisionList ==
    (called # <<>> /\ called[1] = "detect_structure") =>
        returned = C15_Decision(series)

\* C15 witness: neither trend, the last close within 2% of the latest swing
\* low and of the latest swing high: 'accumulation'.
C15_Witness ==
    /\ called = <<"detect_structure">>
    /\ returned = "accumulation"
    /\ Cardinality(C14_SwingHighs(series, 3, 3)) >= 2
    /\ LET high1 == series[C15_Latest(C14_SwingHighs(series, 3, 3)) + 1].high
       IN  100 * Abs(Last(series).close - high1) < 2 * high1

\* The positions of the 9 candles before the last one.
C16_Preceding == (Len(series) - 9)..(Len(series) - 1)

\* The sweep the claim describes: the last low below every low of the 9
\* candles before it with the close above the lowest of them, or the last
\* high above every high with the close below the highest.
C16_Sweep ==
    LET last == series[Len(series)]
    IN  \/ /\ \A k \in C16_Preceding : last.low < series[k].low
           /\ \E k \in C16_Preceding : last.close > series[k].low
        \/ /\ \A k \in C16_Preceding : last.high > series[k].high
           /\ \E k \in C16_Preceding : last.close < series[k].high

\* C16: on at least 10 candles detect_liquidity_sweep returns true exactly
\* when the last candle's low is below the lowest low of the preceding 9
\* candles and its close above that low, or its high above their highest
\* high and its close below that high; older candles change nothing.
C16_SweepOfNine ==
    (called # <<>> /\ called[1] = "detect_liquidity_sweep"
        /\ Len(series) >= 10) =>
        /\ returned = C16_Sweep
        /\ returned = detect_liquidity_sweep(PyTail(series, -10))

\* C16 witness: a sweep above the 9 candles before the last one, reported
\* although an older candle has a higher high.
C16_Witness ==
    /\ called = <<"detect_liquidity_sweep">>
    /\ Len(series) = 20
    /\ returned = TRUE
    /\ series[1].high > Last(series).high
    /\ Last(series).low >= 990

\* C17: on a detected sweep volume_confirmed_sweep returns a strength
\* score in 0..100 (wick dominance, plus 15 when the volume of the last
\* candle is more than 30% above the trailing average), so a sweep is
\* reported whether or not its volume is elevated.
C17_SweepStillReported ==
    (called # <<>> /\ called[1] = "volume_confirmed_sweep"
        /\ Len(series) >= 20 /\ C16_Sweep) =>
        /\ returned # FALSE
        /\ returned \notin BOOLEAN

\* The move of the candidate at Python index i of the series, relative to
\* the mean range of the (up to) 10 candles before it, as the pair
\* <<move x count, sum of ranges>>.
C18_RelativeMove(i) ==
    LET before == PySlice(series, Max(0, i - 10), i)
        sum == SeqSum([k \in 1..Len(before) |->
                          before[k].high - before[k].low])
    IN  <<order_block_at(series, i).move_size * Len(before), sum>>

\* The indices the scan of detect_order_block has visited when it returns
\* the block of the candle whose time (its position) is t, and among them
\* the indices of candidate order blocks.
C18_Found(t) ==
    {i \in t..(Len(series) - 5) : i >= 4 /\ order_block_at(series, i) # NoDict}

\* C18: the order block returned by detect_order_block has the largest move
\* relative to the 10-candle average range among the candidates the scan
\* found, and its confidence is 'high' exactly when its move exceeds 2.0
\* times that average, 'medium' otherwise.
C18_LargestRelativeMove ==
    (called = <<"detect_order_block">> /\ returned # NoDict) =>
        LET mine == C18_RelativeMove(returned.time)
        IN  /\ \A i \in C18_Found(returned.time) :
                   LET other == C18_RelativeMove(i)
                   IN  other[1] * mine[2] <= mine[1] * other[2]
            /\ returned.confidence =
                   IF mine[1] > 2 * mine[2] THEN "high" ELSE "medium"

\* The half of C18 about the confidence tag alone.
C18_ConfidenceTag ==
    (called = <<"detect_order_block">> /\ returned # NoDict) =>
        LET mine == C18_RelativeMove(returned.time)
        IN  returned.confidence =
                IF mine[1] > 2 * mine[2] THEN "high" ELSE "medium"

\* The candle an order block was built from: the one whose time the block
\* carries.
C19_SourceCandle == At(series, returned.time)

\* The entry of the returned order block is 38.2% of the height of the
\* returned zone inside it, from the bottom when bullish, from the top when
\* bearish (entry in thousandths).
C19_EntryInsideZone ==
    (called = <<"detect_order_block">> /\ returned # NoDict) =>
        LET height == returned.top - returned.bottom
        IN  /\ returned.entry =
                   IF returned.type = "bullish"
                   THEN returned.bottom * 1000 + 382 * height
                   ELSE returned.top * 1000 - 382 * height
            /\ returned.bottom * 1000 <= returned.entry
            /\ returned.entry <= returned.top * 1000

\* C19: the zone of the order block returned by detect_order_block is the
\* body of its source candle, top = max(open, close) and bottom =
\* min(open, close), and the entry lies 38.2% of the zone height inside the
\* zone, so bottom <= entry <= top.
C19_BodyZone ==
    (called = <<"detect_order_block">> /\ returned # NoDict) =>
        LET c == C19_SourceCandle
        IN  /\ returned.top = Max(c.open, c.close)
            /\ returned.bottom = Min(c.open, c.close)
            /\ C19_EntryInsideZone

\* The prices of the two most recent swings on the side a breaker block of
\* the given type is built from: swing lows when bullish, swing highs when
\* bearish.
C20_SameSide(type) ==
    LET swings == find_swing_points(series, 3, 3)
        side == IF type = "bullish" THEN swings.swing_lows
                ELSE swings.swing_highs
    IN  <<Last2(side).price, Last(side).price>>

\* The zone of the returned breaker block is the range between the two
\* most recent same-side swing prices.
C20_ZoneBetweenSwings ==
    (called = <<"detect_breaker_block">> /\ returned # NoDict) =>
        LET pair == C20_SameSide(returned.type)
        IN  /\ returned.low = Min(pair[1], pair[2])
            /\ returned.high = Max(pair[1], pair[2])

\* The entry of the returned breaker block is 38.2% of the zone's range
\* away from the swept level, the earlier of the two swings (entry in
\* thousandths).
C20_EntryDistance ==
    (called = <<"detect_breaker_block">> /\ returned # NoDict) =>
        /\ returned.price = C20_SameSide(returned.type)[1]
        /\ Abs(returned.entry - returned.price * 1000) =
               382 * (returned.high - returned.low)

\* C20: for a breaker block returned by detect_breaker_block the zone
\* [low, high] is the range between the two most recent same-side swing
\* prices, and the entry lies inside the zone, low <= entry <= high, 38.2%
\* of the range away from the swept level.
C20_EntryInsideZone ==
    (called = <<"detect_breaker_block">> /\ returned # NoDict) =>
        /\ C20_ZoneBetweenSwings
        /\ C20_EntryDistance
        /\ returned.low * 1000 <= returned.entry
        /\ returned.entry <= returned.high * 1000

\* The ranges of the three candles starting at Python index i of the
\* series, and whether the third lies beyond the first.
C21_Ranges(i) ==
    [c1 |-> At(series, i).high - At(series, i).low,
     c2 |-> At(series, i + 1).high - At(series, i + 1).low,
     c3 |-> At(series, i + 2).high - At(series, i + 2).low]

C21_Gap(i) ==
    \/ At(series, i + 2).low > At(series, i).high
    \/ At(series, i + 2).high < At(series, i).low

\* The triples that qualify as the claim has it: the middle range is at
\* most 50% of the average of the outer ranges, and there is a gap.
C21_Qualifying ==
    {i \in 0..(Len(series) - 3) :
        /\ 4 * C21_Ranges(i).c2 <= C21_Ranges(i).c1 + C21_Ranges(i).c3
        /\ C21_Gap(i)}

\* The same with the average of the outer ranges taken as 1.0 (10 tenths)
\* when the outer ranges do not sum to a positive number.
C21_QualifyingFallback ==
    {i \in 0..(Len(series) - 3) :
        /\ IF C21_Ranges(i).c1 + C21_Ranges(i).c3 > 0
           THEN 4 * C21_Ranges(i).c2 <= C21_Ranges(i).c1 + C21_Ranges(i).c3
           ELSE 2 * C21_Ranges(i).c2 <= 10
        /\ C21_Gap(i)}

\* C21 as claimed: detect_fvg returns the gap of the qualifying triple with
\* the largest starting index, and none when no triple qualifies, a triple
\* qualifying exactly when its middle range is at most 50% of the average
\* of its outer ranges and its third candle lies beyond its first.
C21_MostRecentQualifying ==
    (pc = "zones" /\ called = <<"detect_fvg">>) =>
        IF C21_Qualifying = {} THEN returned = NoDict
        ELSE /\ returned # NoDict
             /\ returned.index \in C21_Qualifying
             /\ \A i \in C21_Qualifying : i <= returned.index

\* C21 amended: the same, the average of the outer ranges being taken as
\* 1.0 when the outer ranges do not sum to a positive number.
C21_MostRecentQualifyingFallback ==
    (pc = "zones" /\ called = <<"detect_fvg">>) =>
        IF C21_QualifyingFallback = {} THEN returned = NoDict
        ELSE /\ returned # NoDict
             /\ returned.index \in C21_QualifyingFallback
             /\ \A i \in C21_QualifyingFallback : i <= returned.index

\* C21 witness: detect_fvg has returned the later of two qualifying gaps.
C21_Witness ==
    /\ pc = "zones"
    /\ called = <<"detect_fvg">>
    /\ returned # NoDict
    /\ \E i \in C21_QualifyingFallback : i < returned.index

\* The size of the gap of a three-candle series: how far the third candle's
\* low lies above the first candle's high ("bullish"), or its high below the
\* first candle's low ("bearish").
C22_GapSize(d) ==
    IF d = "bullish" THEN series[3].low - series[1].high
    ELSE series[1].low - series[3].high

\* The middle candle of a three-candle series passes the filter of
\* detect_fvg: its range is at most 50% of the average of the outer ranges,
\* taken as 1.0 (10 tenths) when these do not sum to a positive number.
C22_MiddlePasses ==
    LET outer == (series[1].high - series[1].low)
                 + (series[3].high - series[3].low)
        middle == series[2].high - series[2].low
    IN  IF outer > 0 THEN 4 * middle <= outer ELSE 2 * middle <= 10

\* What C22 says detect_fvg returns on a three-candle series with a gap of
\* size g > 0 in direction d (entry in thousandths).
C22_RoundTrip(d) ==
    LET g == C22_GapSize(d)
    IN  /\ returned # NoDict
        /\ returned.type = d
        /\ returned.top - returned.bottom = g
        /\ returned.bottom = IF d = "bullish" THEN series[1].high
                             ELSE series[3].high
        /\ returned.entry = IF d = "bullish"
                            THEN returned.bottom * 1000 + 382 * g
                            ELSE returned.top * 1000 - 382 * g
        /\ returned.bottom * 1000 < returned.entry
        /\ returned.entry < returned.top * 1000

\* C22 as claimed: for every three-candle series in which candle 3's low
\* exceeds candle 1's high by g > 0 detect_fvg returns a bullish gap with
\* top - bottom = g, bottom = candle 1's high and entry = bottom + 0.382 g
\* (mirrored when bearish), so bottom < entry < top.
C22_GapRoundTrip ==
    (pc = "zones" /\ called = <<"detect_fvg">> /\ Len(series) = 3) =>
        \A d \in Directions : C22_GapSize(d) > 0 => C22_RoundTrip(d)

\* C22 amended: the same for the three-candle series whose middle candle
\* passes the filter.
C22_GapRoundTripFiltered ==
    (pc = "zones" /\ called = <<"detect_fvg">> /\ Len(series) = 3
        /\ C22_MiddlePasses) =>
        \A d \in Directions : C22_GapSize(d) > 0 => C22_RoundTrip(d)

\* C22 witness: detect_fvg has returned the gap of size 2.0 of a
\* three-candle series.
C22_Witness ==
    /\ pc = "zones"
    /\ called = <<"detect_fvg">>
    /\ Len(series) = 3
    /\ C22_MiddlePasses
    /\ C22_GapSize("bullish") = 20
    /\ returned # NoDict

\* The zone held is an order block or a gap: it has a type, a top and a
\* bottom.
C23_Zone == zone # NoDict /\ {"type", "top", "bottom"} \subseteq DOMAIN zone

\* The caller has called validate_fvg or validate_ob.
C23_Validated ==
    /\ pc = "zones"
    /\ called # <<>>
    /\ called[1] \in {"validate_fvg", "validate_ob"}

\* C23: validate_fvg and validate_ob report a bullish zone invalid exactly
\* when the current price is below its bottom and a bearish zone invalid
\* exactly when the price is above its top, so that a price on that edge
\* leaves the zone valid; a missing zone is reported invalid.
C23_InvalidBeyondEdge ==
    C23_Validated =>
        IF zone = NoDict THEN returned = FALSE
        ELSE C23_Zone =>
                (returned = FALSE <=>
                    IF zone.type = "bullish" THEN called[2] < zone.bottom
                    ELSE called[2] > zone.top)

\* The part of C23 away from the edge itself: a price strictly inside or
\* beyond the zone is judged as claimed, and a missing zone is invalid.
C23_InvalidOffEdge ==
    C23_Validated =>
        IF zone = NoDict THEN returned = FALSE
        ELSE (C23_Zone /\ called[2] # (IF zone.type = "bullish"
                                        THEN zone.bottom ELSE zone.top)) =>
                (returned = FALSE <=>
                    IF zone.type = "bullish" THEN called[2] < zone.bottom
                    ELSE called[2] > zone.top)

\* The caller has called one of the three mitigation checks on a zone of
\* the kind the check is for.
C24_Checked ==
    /\ pc = "zones"
    /\ called # <<>>
    /\ zone # NoDict
    /\ \/ /\ called[1] \in {"is_ob_mitigated", "is_fvg_mitigated"}
          /\ {"top", "bottom"} \subseteq DOMAIN zone
       \/ /\ called[1] = "is_breaker_mitigated"
          /\ {"low", "high"} \subseteq DOMAIN zone

\* The price interval of the zone held.
C24_Interval ==
    IF "top" \in DOMAIN zone THEN <<zone.bottom, zone.top>>
    ELSE <<zone.low, zone.high>>

\* Some candle among the last 10 of the series overlaps the interval.
C24_Overlap ==
    \E k \in 1..Len(series) :
        /\ k > Len(series) - 10
        /\ series[k].low <= C24_Interval[2]
        /\ series[k].high >= C24_Interval[1]

\* The answer of C24: is_ob_mitigated, is_fvg_mitigated and
\* is_breaker_mitigated return true exactly when one of the last 10 candles overlaps the zone's price
\* interval, whatever the older candles and the type of the zone.
C24_OverlapInLastTen ==
    C24_Checked => (returned = C24_Overlap)

\* The frame of C24: a mitigation check changes neither the zone nor the
\* series.
C24_Frame ==
    [][(pc = "zones" /\ called' # called /\ called'[1] \in
            {"is_ob_mitigated", "is_fvg_mitigated", "is_breaker_mitigated"})
        => (zone' = zone /\ series' = series)]_vars

\* C24: is_ob_mitigated, is_fvg_mitigated and is_breaker_mitigated return
\* true exactly when at least one of the last 10 candles of the series
\* overlaps the zone's price interval, whatever the older candles and the
\* zone's type, and the check modifies neither the zone nor the series.
C24_PointInTimeCheck == []C24_OverlapInLastTen /\ C24_Frame

\* C24 witness: a check has answered false on a series of more than 10
\* candles whose only overlapping candle is older than the last 10.
C24_Witness ==
    /\ C24_Checked
    /\ Len(series) > 10
    /\ returned = FALSE
    /\ \E k \in 1..(Len(series) - 10) :
           /\ series[k].low <= C24_Interval[2]
           /\ series[k].high >= C24_Interval[1]

\* The caller has detected a gap, kept it and asked is_fvg_mitigated about
\* it with the same series.
C30_AskedAboutOwnGap ==
    /\ pc = "zones"
    /\ called = <<"is_fvg_mitigated">>
    /\ zone # NoDict
    /\ zone = detect_fvg(series)

\* Every one of the last 10 candles lies strictly above the top or strictly
\* below the bottom of the zone held.
C30_AllClear ==
    \A k \in 1..Len(series) :
        k > Len(series) - 10 =>
            series[k].low > zone.top \/ series[k].high < zone.bottom

\* C30: a gap returned by detect_fvg whose three candles lie within the
\* last 10 candles of the series is reported mitigated by is_fvg_mitigated
\* on the same series, and a gap is reported unmitigated only if every one
\* of the last 10 candles lies strictly above its top or strictly below its
\* bottom.
C30_FreshGapMitigated ==
    C30_AskedAboutOwnGap =>
        /\ zone.index >= Len(series) - 10 => returned = TRUE
        /\ returned = FALSE => C30_AllClear

\* C30 witness: the gap of the last three candles of a series of more
\* than 10 has been reported mitigated.
C30_Witness ==
    /\ C30_AskedAboutOwnGap
    /\ zone.index >= Len(series) - 10
    /\ returned = TRUE

\* A gap that the last 10 candles have left behind is reported unmitigated.
C30_WitnessUnmitigated ==
    /\ C30_AskedAboutOwnGap
    /\ Len(series) > 10
    /\ returned = FALSE

\* The candle the returned order block was built from, the two candles
\* after it and the ranges of the (up to) 10 candles before it.
C25_Source == At(series, returned.time)

C25_Next == PySlice(series, returned.time + 1, returned.time + 3)

C25_Before == PySlice(series, Max(0, returned.time - 10), returned.time)

C25_RangeSum ==
    SeqSum([k \in 1..Len(C25_Before) |->
               C25_Before[k].high - C25_Before[k].low])

\* C25: detect_order_block reports a block only when the move that follows
\* agrees with its direction: the highest high of the following candles
\* exceeds the candle's high by more than 1.2 times the average range for a
\* bullish block, the lowest low of the following candles is below the
\* candle's low by more than 1.2 times the average range for a bearish
\* block; an upward move never produces a bearish block.
C25_MoveAgrees ==
    (pc = "detectors" /\ called = <<"detect_order_block">>
        /\ returned # NoDict) =>
        IF returned.type = "bullish"
        THEN 5 * Len(C25_Before) * (SeqMax(Highs(C25_Next)) - C25_Source.high)
                > 6 * C25_RangeSum
        ELSE 5 * Len(C25_Before) * (C25_Source.low - SeqMin(Lows(C25_Next)))
                > 6 * C25_RangeSum

\* The bullish half of C25.
C25_BullishMoveAgrees ==
    (pc = "detectors" /\ called = <<"detect_order_block">>
        /\ returned # NoDict /\ returned.type = "bullish") =>
        5 * Len(C25_Before) * (SeqMax(Highs(C25_Next)) - C25_Source.high)
            > 6 * C25_RangeSum

\* The three modes in the order analyze_all lists them.
C26_Modes == <<"scalp", "institutional", "hybrid">>

\* The largest confidence among the three mode results.
C26_Maximum ==
    CHOOSE c \in {results[C26_Modes[k]].confidence : k \in 1..3} :
        \A k \in 1..3 : results[C26_Modes[k]].confidence <= c

\* The earliest mode whose result has the largest confidence.
C26_Earliest ==
    C26_Modes[CHOOSE k \in 1..3 :
        /\ results[C26_Modes[k]].confidence = C26_Maximum
        /\ \A j \in 1..(k - 1) :
               results[C26_Modes[j]].confidence < C26_Maximum]

\* C26: analyze_best returns the earliest of scalp, institutional, hybrid
\* whose confidence no other exceeds, except that it returns the hybrid
\* result when that confidence is below 50; so it returns a NO_TRADE result
\* only when all three modes are NO_TRADE.
C26_BestOfThree ==
    pc = "analyze_best" =>
        /\ best = IF C26_Maximum < 50 THEN results.hybrid
                  ELSE results[C26_Earliest]
        /\ C26_Maximum >= 50 =>
               \A k \in 1..3 : best.confidence >= results[C26_Modes[k]].confidence
        /\ best.signal = "NO_TRADE" =>
               \A k \in 1..3 : results[C26_Modes[k]].signal = "NO_TRADE"

\* C26 witness: analyze_best has returned the institutional result, which
\* ties with the hybrid one above the scalp one.
C26_Witness ==
    /\ pc = "analyze_best"
    /\ best = results.institutional
    /\ results.institutional.confidence = results.hybrid.confidence
    /\ results.scalp.confidence < results.institutional.confidence

\* analyze_best has returned the hybrid result because nothing reached 50.
C26_WitnessFallback ==
    /\ pc = "analyze_best"
    /\ C26_Maximum < 50
    /\ best = results.hybrid
    /\ best # results.scalp

\* The results the engine has produced in the current state.
C27_Produced ==
    IF pc = "analyze_all" THEN {results[C26_Modes[k]] : k \in 1..3}
    ELSE IF pc = "analyze_best"
    THEN {results[C26_Modes[k]] : k \in 1..3} \cup {best}
    ELSE {}

\* C27: in every result the engine produces signal is NO_TRADE exactly when
\* direction is NO_TRADE, and then confidence, entry price, stop loss, the
\* three take-profits, the risk/reward ratio and the position size are 0;
\* every result with a direction has a confidence of at least 50.
C27_NoTradeIsEmpty ==
    \A r \in C27_Produced :
        /\ r.signal = "NO_TRADE" <=> r.direction = "NO_TRADE"
        /\ r.direction = "NO_TRADE" =>
               /\ r.confidence = 0
               /\ r.entry_price = 0
               /\ r.stop_loss = 0
               /\ r.take_profit_1 = 0
               /\ r.take_profit_2 = 0
               /\ r.take_profit_3 = 0
               /\ r.risk_reward_ratio = 0
               /\ r.position_size = 0
        /\ r.direction # "NO_TRADE" => r.confidence >= 50

\* C27 witness: one analysis has produced a NO_TRADE result, a weak signal
\* of confidence 50 and a full signal.
C27_Witness ==
    /\ \E r \in C27_Produced : r.direction = "NO_TRADE"
    /\ \E r \in C27_Produced : r.direction # "NO_TRADE" /\ r.confidence = 50
    /\ \E r \in C27_Produced : r.signal \in {"LONG", "SHORT"}

\* The last update returned TP_HIT or SL_HIT.
C28_Terminal ==
    /\ pc \in {"trade", "backtest", "backtest_done"}
    /\ called # <<>>
    /\ returned \in {"TP_HIT", "SL_HIT"}

\* C28: the terminal states of TradeStateMachine are absorbing: once update
\* has returned TP_HIT or SL_HIT every later update, whatever its price,
\* returns that same state.
C28_TerminalAbsorbing ==
    [][C28_Terminal => returned' = returned]_vars

\* The part of C28 about OPEN and BREAK_EVEN: after TP_HIT or SL_HIT no
\* update returns OPEN or BREAK_EVEN.
C28_NeverReopened ==
    [][C28_Terminal => returned' \in {"TP_HIT", "SL_HIT"}]_vars

\* A step is an update of the trade with the price called'[2].
C29_Update ==
    /\ pc \in {"trade", "backtest"}
    /\ called' # <<>>
    /\ trade' = update(trade, called'[2])

\* The price of the step reaches the break-even level of an open trade.
C29_BreakEven ==
    /\ trade.state = "OPEN"
    /\ called'[2] >= trade.entry + (trade.entry - trade.sl)

\* The trade was created with sl < entry < tp: entry and tp never change,
\* and be keeps the entry.
C29_WellFormed ==
    /\ trade.be = trade.entry
    /\ trade.entry < trade.tp
    /\ trade.sl <= trade.entry
    /\ trade.state = "OPEN" => trade.sl < trade.entry

\* C29 as claimed: update never changes entry and tp, and changes the stop
\* only when it moves the state from OPEN to BREAK_EVEN, which it does
\* exactly when price >= entry + (entry - sl), setting the stop to entry;
\* for a trade created with sl < entry < tp the stop never decreases and
\* the state never returns to OPEN.
C29_StopOnlyAtBreakEven ==
    [][(pc \in {"trade", "backtest"} /\ called' # <<>>) =>
        /\ trade'.entry = trade.entry
        /\ trade'.tp = trade.tp
        /\ trade'.sl # trade.sl =>
               trade.state = "OPEN" /\ trade'.state = "BREAK_EVEN"
        /\ (trade.state = "OPEN" /\ trade'.state = "BREAK_EVEN")
               <=> C29_BreakEven
        /\ C29_BreakEven => trade'.sl = trade.entry
        /\ C29_WellFormed =>
               /\ trade'.sl >= trade.sl
               /\ trade.state # "OPEN" => trade'.state # "OPEN"]_vars

\* C29 amended: the update that sets the stop to entry is the one made in
\* state OPEN with price >= entry + (entry - sl); it leaves the state
\* BREAK_EVEN unless the same price is at or above tp (TP_HIT) or at or
\* below the new stop (SL_HIT), and no other update changes the stop.
C29_StopOnlyFromOpen ==
    [][(pc \in {"trade", "backtest"} /\ called' # <<>>) =>
        /\ trade'.entry = trade.entry
        /\ trade'.tp = trade.tp
        /\ trade'.sl # trade.sl => C29_BreakEven
        /\ C29_BreakEven =>
               /\ trade'.sl = trade.entry
               /\ trade'.state =
                      IF called'[2] <= trade.entry THEN "SL_HIT"
                      ELSE IF called'[2] >= trade.tp THEN "TP_HIT"
                      ELSE "BREAK_EVEN"
        /\ (trade.state = "OPEN" /\ trade'.state = "BREAK_EVEN")
               => C29_BreakEven
        /\ C29_WellFormed =>
               /\ trade'.sl >= trade.sl
               /\ trade.state # "OPEN" => trade'.state # "OPEN"]_vars

\* C29 witness: an update has moved a trade created with sl < entry < tp
\* to BREAK_EVEN and raised its stop to the entry.
C29_Witness ==
    /\ pc \in {"trade", "backtest"}
    /\ called # <<>>
    /\ trade.state = "BREAK_EVEN"
    /\ trade.sl = trade.entry
    /\ trade.entry < trade.tp
    /\ called[2] < trade.tp
    /\ called[2] > trade.entry

====
